---- MODULE Spec2Model ----
\* State-machine model of the catalog application (src/catalog/views.py,
\* src/catalog/utils.py): the product cache, the PDF artifact handoff through
\* temp files and the session, and the image prefetch stage.
EXTENDS Integers, Sequences, FiniteSets, TLC

\* ------------------------------------------------------------------ bounds
\* request threads serving views concurrently
NumThreads == 2
\* requests started in one behaviour
MaxRequests == 3
\* clock advances in one behaviour
MaxTicks == 2

\* ------------------------------------------------------- program constants
PRODUCTS_CACHE_KEY == "wordpress_products"
PRODUCTS_CACHE_TIMESTAMP_KEY == "wordpress_products_timestamp"
PRODUCTS_CACHE_TTL == 300

Threads == 1..NumThreads
CacheKeys == {PRODUCTS_CACHE_KEY, PRODUCTS_CACHE_TIMESTAMP_KEY}
\* seconds the clock may advance in one step: just below the TTL, and the rest
TickSteps == {1, PRODUCTS_CACHE_TTL - 1}

\* Python's None
None == [none |-> TRUE]
\* the product lists fetch_wordpress_products may hand to its caller, by sku:
\* the empty list only. As written, line 83 builds Product without
\* regular_price, a required field of utils.py line 15, so a query that yields
\* a row in stock raises TypeError: that outcome is the raising branch of
\* GcpFetch.
Catalogs == {<<>>}

\* <str:category> and <str:size> take any text without a slash; the session
\* key of ("Jogger_S", "M") is the session key of ("Jogger", "S_M")
Categories == {"Jogger", "Jogger_S"}
Sizes == {"S", "M", "S_M"}
\* the size lists a generate_pdfs URL may carry (sizes.split(","))
SizeLists == {<<"M">>, <<"S", "M">>, <<"M", "M">>}

VARIABLES
    now,        \* wall clock, seconds
    ticks,      \* clock advances so far
    cache,      \* django cache: key -> <<>> or <<[val, exp, at]>>
    session,    \* the stored session: pdf key -> token (0: no such key)
    files,      \* PDF_TEMP_DIR: token -> document bytes
    uuids,      \* uuid4 values handed out so far
    nreq,       \* requests started so far
    nfetches,   \* invocations of fetch_wordpress_products so far
    th,         \* per request thread: position and locals of the running view
    handoff,    \* history: per (category, size), the document last handed to
                \* the session by a completed generate_pdfs and whether a
                \* download_pdf has returned it since
    served,     \* history: token -> number of responses that returned its bytes
    invalidated, \* history: the fetches begun by the time the last
                \* _invalidate_cache call returned (0: none has returned)
    pf_products, \* _prefetch_images: the thumbnail_url of each product passed in
    unique_urls, \* _prefetch_images: list(set of the non-empty thumbnail urls)
    futures,    \* the download_image calls: url, position, attempts made, result
    image_map,  \* _prefetch_images: url -> image, as collected
    pf_pc,      \* _prefetch_images: position of the calling thread
    cz,         \* categorize_product: the name, the loop position, the result
    ss,         \* _sort_sizes: the sizes passed in, known, unknown, the result
    pg,         \* generate_pdf_content: the products, the loop index, the
                \* pages finished, the page being drawn, the result
    sel         \* generate_pdfs: the rows in the database, all_products,
                \* products_by_size, image_map, the loop positions, the
                \* session as the request holds it, the documents rendered,
                \* the response

webvars == <<now, ticks, cache, session, files, uuids, nreq, nfetches, th,
             handoff, served, invalidated>>
imgvars == <<pf_products, unique_urls, futures, image_map, pf_pc>>
fnvars == <<cz, ss, pg, sel>>
vars == <<webvars, imgvars, fnvars>>

\* ------------------------------------------------------------ django cache
\* cache.get(key): the stored value unless absent or expired
cache_get(key) ==
    IF cache[key] = <<>> \/ cache[key][1].exp <= now
    THEN None
    ELSE cache[key][1].val

\* cache.set(key, value, timeout); at is history, the time of the set
cache_set(c, key, value, timeout) ==
    [c EXCEPT ![key] = <<[val |-> value, exp |-> now + timeout, at |-> now]>>]

\* cache.delete(key)
cache_delete(c, key) == [c EXCEPT ![key] = <<>>]

\* ------------------------------------------------------------ thread state
\* line 251, 268: pdf_key = f'pdf_{category}_{size}'
pdf_key(category, size) == "pdf_" \o category \o "_" \o size
PdfKeys == {pdf_key(c, s) : c \in Categories, s \in Sizes}
EmptySession == [k \in PdfKeys |-> 0]
\* no document: a response without bytes, a file that was not written whole
NoDoc == [category |-> "", size |-> "", src |-> None]
NoResponse == [status |-> 0, kind |-> "none", pdf |-> NoDoc, files |-> <<>>,
               last_updated |-> None]

\* locals of a view; prev, seen, seen_at and the start_ fields are history
\* (the view before this one on the thread, the cache entry and clock that
\* cache.get met, the shared state when the view was entered); flushed tells
\* that the stored session the request loaded was deleted since
IdleThread ==
    [pc |-> "idle", view |-> "none", prev |-> "none",
     category |-> "", sizes |-> <<>>, localtime |-> 0, flushed |-> FALSE,
     products |-> None, fetched |-> 0, wrote |-> 0, hit |-> FALSE,
     seen |-> <<>>, seen_at |-> 0,
     start_cache |-> [k \in CacheKeys |-> <<>>], prev_cache |-> <<>>,
     start_files |-> {}, start_session |-> EmptySession,
     start_invalidated |-> 0,
     sess |-> EmptySession, modified |-> FALSE,
     i |-> 1, response_data |-> <<>>, made |-> {},
     pdf_id |-> 0, pdf_bytes |-> NoDoc, response |-> NoResponse]

Free(t) == th[t].pc \in {"idle", "done"}

\* a view is entered: login_required has loaded the session
Enter(t, view, category, sizes, pc) ==
    /\ Free(t)
    /\ nreq < MaxRequests
    /\ nreq' = nreq + 1
    /\ th' = [th EXCEPT ![t] = [IdleThread EXCEPT
                 !.pc = pc, !.view = view, !.prev = th[t].view,
                 !.category = category, !.sizes = sizes, !.sess = session,
                 !.start_cache = cache,
                 !.prev_cache = th[t].start_cache[PRODUCTS_CACHE_KEY],
                 !.start_files = DOMAIN files, !.start_session = session,
                 !.start_invalidated = invalidated]]

ServerError == [NoResponse EXCEPT !.status = 500, !.kind = "error"]
\* SessionInterrupted, answered as 400 (session engines that keep the
\* sessions on the server, as the default one does)
BadRequest == [NoResponse EXCEPT !.status = 400, !.kind = "bad_request"]

\* SessionMiddleware saves a modified session unless the response is a 500
Saving(resp, locals) == locals.modified /\ resp.status # 500
\* the save finds the stored session deleted (UpdateError)
Interrupted(resp, locals) == Saving(resp, locals) /\ locals.flushed

\* the response leaves through SessionMiddleware: a modified session is saved
\* unless the response is a 500, and a save that finds the stored session
\* deleted turns the response into a 400; the request's locals are gone
Respond(t, resp, locals) ==
    /\ th' = [th EXCEPT ![t] = [locals EXCEPT
                 !.pc = "done",
                 !.response = IF Interrupted(resp, locals) THEN BadRequest
                              ELSE resp,
                 !.sess = EmptySession, !.localtime = 0, !.flushed = FALSE,
                 !.i = 1, !.response_data = <<>>, !.pdf_bytes = NoDoc]]
    /\ session' = IF Saving(resp, locals) /\ ~Interrupted(resp, locals)
                  THEN locals.sess ELSE session

\* ------------------------------------------------------ get_cached_products
\* where the calling view continues after get_cached_products returns
AfterGcp(view) ==
    CASE view = "select_category" -> "sc_timestamp"
      [] view = "select_size" -> "ssz_render"
      [] OTHER -> "gen_size"

\* mutant: "if not products" in place of "if products is None"
GcpGet_Truthy(t) ==
    /\ th[t].pc = "gcp_get"
    /\ LET products == cache_get(PRODUCTS_CACHE_KEY)
           miss == products = None \/ products.rows = <<>>
       IN
       th' = [th EXCEPT ![t].products = products,
                        ![t].hit = ~miss,
                        ![t].seen = cache[PRODUCTS_CACHE_KEY],
                        ![t].seen_at = now,
                        ![t].pc = IF miss THEN "gcp_fetch"
                                  ELSE AfterGcp(th[t].view)]
    /\ UNCHANGED <<now, ticks, cache, session, files, uuids, nreq, nfetches,
                   handoff, served, invalidated, imgvars, fnvars>>

\* line 101-102, 106: products = cache.get(PRODUCTS_CACHE_KEY); unless it is
\* None, return it
GcpGet(t) ==
    /\ th[t].pc = "gcp_get"
    /\ LET products == cache_get(PRODUCTS_CACHE_KEY) IN
       th' = [th EXCEPT ![t].products = products,
                        ![t].hit = (products # None),
                        ![t].seen = cache[PRODUCTS_CACHE_KEY],
                        ![t].seen_at = now,
                        ![t].pc = IF products = None THEN "gcp_fetch"
                                  ELSE AfterGcp(th[t].view)]
    /\ UNCHANGED <<now, ticks, cache, session, files, uuids, nreq, nfetches,
                   handoff, served, invalidated, imgvars, fnvars>>

\* mutant: a failed fetch is cached as an empty list before the error leaves
GcpFetch_CacheFailure(t) ==
    /\ th[t].pc = "gcp_fetch"
    /\ nfetches' = nfetches + 1
    /\ \/ /\ \E rows \in Catalogs :
               th' = [th EXCEPT
                        ![t].products = [fetch |-> nfetches + 1, rows |-> rows],
                        ![t].fetched = @ + 1,
                        ![t].pc = "gcp_set"]
          /\ UNCHANGED <<session, cache>>
       \/ /\ Respond(t, ServerError, [th[t] EXCEPT !.fetched = @ + 1])
          /\ cache' = cache_set(cache, PRODUCTS_CACHE_KEY,
                                [fetch |-> nfetches + 1, rows |-> <<>>],
                                PRODUCTS_CACHE_TTL)
    /\ UNCHANGED <<now, ticks, files, uuids, nreq, handoff, served, invalidated, imgvars, fnvars>>

\* line 103: products = fetch_wordpress_products(); the source answers with
\* what it holds at that moment, or raises
GcpFetch(t) ==
    /\ th[t].pc = "gcp_fetch"
    /\ nfetches' = nfetches + 1
    /\ \/ /\ \E rows \in Catalogs :
               th' = [th EXCEPT
                        ![t].products = [fetch |-> nfetches + 1, rows |-> rows],
                        ![t].fetched = @ + 1,
                        ![t].pc = "gcp_set"]
          /\ UNCHANGED session
       \/ Respond(t, ServerError, [th[t] EXCEPT !.fetched = @ + 1])
    /\ UNCHANGED <<now, ticks, cache, files, uuids, nreq, handoff, served, invalidated, imgvars, fnvars>>

\* line 104: cache.set(PRODUCTS_CACHE_KEY, products, PRODUCTS_CACHE_TTL)
GcpSet(t) ==
    /\ th[t].pc = "gcp_set"
    /\ cache' = cache_set(cache, PRODUCTS_CACHE_KEY, th[t].products,
                          PRODUCTS_CACHE_TTL)
    /\ th' = [th EXCEPT ![t].pc = "gcp_localtime", ![t].wrote = @ + 1]
    /\ UNCHANGED <<now, ticks, session, files, uuids, nreq, nfetches, handoff, served, invalidated, imgvars, fnvars>>

\* line 105: timezone.localtime(), the argument of the cache.set that follows
GcpLocaltime(t) ==
    /\ th[t].pc = "gcp_localtime"
    /\ th' = [th EXCEPT ![t].localtime = now, ![t].pc = "gcp_set_ts"]
    /\ UNCHANGED <<now, ticks, cache, session, files, uuids, nreq, nfetches,
                   handoff, served, invalidated, imgvars, fnvars>>

\* line 105-106: cache.set(PRODUCTS_CACHE_TIMESTAMP_KEY, <the time read>, TTL);
\* return products. The entry also records which fetch it stamps (history)
GcpSetTimestamp(t) ==
    /\ th[t].pc = "gcp_set_ts"
    /\ cache' = cache_set(cache, PRODUCTS_CACHE_TIMESTAMP_KEY,
                          [time |-> th[t].localtime, fetch |-> th[t].products.fetch],
                          PRODUCTS_CACHE_TTL)
    /\ th' = [th EXCEPT ![t].pc = AfterGcp(th[t].view), ![t].wrote = @ + 1]
    /\ UNCHANGED <<now, ticks, session, files, uuids, nreq, nfetches, handoff, served, invalidated, imgvars, fnvars>>

\* -------------------------------------------------------- _invalidate_cache
\* mutant: the product list key is not deleted
InvDelete_Keep(t) ==
    /\ th[t].pc = "inv_delete"
    /\ th' = [th EXCEPT ![t].pc = "inv_delete_ts"]
    /\ UNCHANGED <<now, ticks, cache, session, files, uuids, nreq, nfetches,
                   handoff, served, invalidated, imgvars, fnvars>>

\* line 116: cache.delete(PRODUCTS_CACHE_KEY)
InvDelete(t) ==
    /\ th[t].pc = "inv_delete"
    /\ cache' = cache_delete(cache, PRODUCTS_CACHE_KEY)
    /\ th' = [th EXCEPT ![t].pc = "inv_delete_ts"]
    /\ UNCHANGED <<now, ticks, session, files, uuids, nreq, nfetches, handoff, served, invalidated, imgvars, fnvars>>

\* line 117: cache.delete(PRODUCTS_CACHE_TIMESTAMP_KEY), then refresh_data
\* redirects
InvDeleteTimestamp(t) ==
    /\ th[t].pc = "inv_delete_ts"
    /\ cache' = cache_delete(cache, PRODUCTS_CACHE_TIMESTAMP_KEY)
    /\ Respond(t, [NoResponse EXCEPT !.status = 302, !.kind = "redirect"], th[t])
    /\ invalidated' = nfetches
    /\ UNCHANGED <<now, ticks, files, uuids, nreq, nfetches, handoff, served, imgvars, fnvars>>

\* ---------------------------------------------------------- select_category
SelectCategory(t) ==
    /\ Enter(t, "select_category", "", <<>>, "gcp_get")
    /\ UNCHANGED <<now, ticks, cache, session, files, uuids, nfetches, handoff, served, invalidated, imgvars, fnvars>>

\* line 155-160: last_updated = _get_cache_timestamp(); render
ScTimestamp(t) ==
    /\ th[t].pc = "sc_timestamp"
    /\ Respond(t, [NoResponse EXCEPT !.status = 200, !.kind = "html",
                       !.last_updated = cache_get(PRODUCTS_CACHE_TIMESTAMP_KEY)],
               th[t])
    /\ UNCHANGED <<now, ticks, cache, files, uuids, nreq, nfetches, handoff, served, invalidated, imgvars, fnvars>>

\* -------------------------------------------------------------- refresh_data
RefreshData(t) ==
    /\ Enter(t, "refresh_data", "", <<>>, "inv_delete")
    /\ UNCHANGED <<now, ticks, cache, session, files, uuids, nfetches, handoff, served, invalidated, imgvars, fnvars>>

\* --------------------------------------------------------------- select_size
\* what a request to select_size may carry: a GET, or a POST with its
\* request.POST.getlist('sizes')
SelectSizeRequests ==
    {[method |-> "GET", selected_sizes |-> <<>>],
     [method |-> "POST", selected_sizes |-> <<>>],
     [method |-> "POST", selected_sizes |-> <<"M">>]}

\* line 180-183: the view is entered and calls get_cached_products. (The
\* category of the URL selects among the products of the list, which has
\* none, and is left out.)
SelectSize(t) ==
    /\ Enter(t, "select_size", "", <<>>, "gcp_get")
    /\ UNCHANGED <<now, ticks, cache, session, files, uuids, nfetches, handoff, served, invalidated, imgvars, fnvars>>

\* line 184-210: the sizes of the category are counted and sorted, then the
\* request is looked at: a POST with sizes chosen redirects to generate_pdfs,
\* a POST without renders the page with the error, a GET renders the page
SszRender(t) ==
    /\ th[t].pc = "ssz_render"
    /\ \E r \in SelectSizeRequests :
          Respond(t,
                  IF r.method = "POST" /\ r.selected_sizes # <<>>
                  THEN [NoResponse EXCEPT !.status = 302, !.kind = "redirect"]
                  ELSE IF r.method = "POST"
                  THEN [NoResponse EXCEPT !.status = 200, !.kind = "html_error"]
                  ELSE [NoResponse EXCEPT !.status = 200, !.kind = "html"],
                  th[t])
    /\ UNCHANGED <<now, ticks, cache, files, uuids, nreq, nfetches, handoff, served, invalidated, imgvars, fnvars>>

\* ------------------------------------------------------------- generate_pdfs
\* generate_pdf_content(products_by_size[size], image_map): the document for
\* (category, size) rendered from the product list the view obtained
Document(category, size, products) ==
    [category |-> category, size |-> size, src |-> products]

GeneratePdfs(t) ==
    /\ \E category \in Categories, sizes \in SizeLists :
           Enter(t, "generate_pdfs", category, sizes, "gcp_get")
    /\ UNCHANGED <<now, ticks, cache, session, files, uuids, nfetches, handoff, served, invalidated, imgvars, fnvars>>

\* mutant: the single-size early return is missing
GenSize_AlwaysStore(t) ==
    /\ th[t].pc = "gen_size"
    /\ LET me == th[t]
           size == me.sizes[me.i]
           pdf_content == Document(me.category, size, me.products)
           pdf_id == uuids + 1
       IN  \/ /\ Respond(t, ServerError, me)
              /\ UNCHANGED <<files, uuids>>
           \/ IF FALSE
              THEN /\ Respond(t, [NoResponse EXCEPT !.status = 200,
                                     !.kind = "pdf", !.pdf = pdf_content], me)
                   /\ UNCHANGED <<files, uuids>>
              ELSE /\ uuids' = pdf_id
                   /\ \/ /\ files' = files @@ (pdf_id :> pdf_content)
                         /\ th' = [th EXCEPT
                              ![t].sess = [@ EXCEPT ![pdf_key(me.category, size)] = pdf_id],
                              ![t].modified = TRUE,
                              ![t].made = @ \cup {pdf_id},
                              ![t].response_data =
                                  Append(@, [category |-> me.category, size |-> size]),
                              ![t].i = @ + 1,
                              ![t].pc = IF me.i = Len(me.sizes) THEN "gen_return"
                                        ELSE "gen_size"]
                         /\ UNCHANGED session
                      \/ /\ Respond(t, ServerError, me)
                         /\ UNCHANGED files
                      \/ /\ Respond(t, ServerError, me)
                         /\ files' = files @@ (pdf_id :> NoDoc)
    /\ UNCHANGED <<now, ticks, cache, nreq, nfetches, handoff, served, invalidated, imgvars, fnvars>>

\* line 235-261: one turn of the loop over the requested sizes. Any exception
\* ends the request with a 500 JSON body. generate_pdf_content may raise
\* (line 237), before anything is stored; a single requested size returns the
\* bytes directly; otherwise a fresh uuid4 is drawn (line 246) and the bytes
\* go to a file of that name, the session key getting the uuid, unless open()
\* raises (line 248: the uuid is spent, no file) or f.write raises (line 249:
\* the uuid is spent and the file stays with what was written of it, which
\* is no document: NoDoc)
GenSize(t) ==
    /\ th[t].pc = "gen_size"
    /\ LET me == th[t]
           size == me.sizes[me.i]
           pdf_content == Document(me.category, size, me.products)
           pdf_id == uuids + 1
       IN  \/ /\ Respond(t, ServerError, me)
              /\ UNCHANGED <<files, uuids>>
           \/ IF Len(me.sizes) = 1
              THEN /\ Respond(t, [NoResponse EXCEPT !.status = 200,
                                     !.kind = "pdf", !.pdf = pdf_content], me)
                   /\ UNCHANGED <<files, uuids>>
              ELSE /\ uuids' = pdf_id
                   /\ \/ /\ files' = files @@ (pdf_id :> pdf_content)
                         /\ th' = [th EXCEPT
                              ![t].sess = [@ EXCEPT ![pdf_key(me.category, size)] = pdf_id],
                              ![t].modified = TRUE,
                              ![t].made = @ \cup {pdf_id},
                              ![t].response_data =
                                  Append(@, [category |-> me.category, size |-> size]),
                              ![t].i = @ + 1,
                              ![t].pc = IF me.i = Len(me.sizes) THEN "gen_return"
                                        ELSE "gen_size"]
                         /\ UNCHANGED session
                      \/ /\ Respond(t, ServerError, me)
                         /\ UNCHANGED files
                      \/ /\ Respond(t, ServerError, me)
                         /\ files' = files @@ (pdf_id :> NoDoc)
    /\ UNCHANGED <<now, ticks, cache, nreq, nfetches, handoff, served, invalidated, imgvars, fnvars>>

\* line 263: return JsonResponse({'files': response_data})
GenReturn(t) ==
    /\ th[t].pc = "gen_return"
    /\ Respond(t, [NoResponse EXCEPT !.status = 200, !.kind = "files",
                       !.files = th[t].response_data], th[t])
    /\ handoff' = [k \in DOMAIN handoff |->
                      IF /\ ~th[t].flushed
                         /\ k[1] = th[t].category
                         /\ \E j \in 1..Len(th[t].sizes) : th[t].sizes[j] = k[2]
                      THEN [state |-> "ready",
                            doc |-> Document(k[1], k[2], th[t].products)]
                      ELSE handoff[k]]
    /\ UNCHANGED <<now, ticks, cache, files, uuids, nreq, nfetches, served, invalidated, imgvars, fnvars>>

\* -------------------------------------------------------------- download_pdf
NotFound == [NoResponse EXCEPT !.status = 404, !.kind = "not_found"]

DownloadPdf(t) ==
    /\ \E category \in Categories, size \in Sizes :
           Enter(t, "download_pdf", category, <<size>>, "dl_get")
    /\ UNCHANGED <<now, ticks, cache, session, files, uuids, nfetches, handoff, served, invalidated, imgvars, fnvars>>

\* line 268-271: pdf_id = request.session.get(pdf_key); if pdf_id:
DlGet(t) ==
    /\ th[t].pc = "dl_get"
    /\ LET pdf_id == th[t].sess[pdf_key(th[t].category, th[t].sizes[1])] IN
       IF pdf_id # 0
       THEN /\ th' = [th EXCEPT ![t].pdf_id = pdf_id, ![t].pc = "dl_exists"]
            /\ UNCHANGED session
       ELSE Respond(t, NotFound, th[t])
    /\ UNCHANGED <<now, ticks, cache, files, uuids, nreq, nfetches, handoff, served, invalidated, imgvars, fnvars>>

\* line 273: if os.path.exists(pdf_path):
DlExists(t) ==
    /\ th[t].pc = "dl_exists"
    /\ IF th[t].pdf_id \in DOMAIN files
       THEN /\ th' = [th EXCEPT ![t].pc = "dl_read"]
            /\ UNCHANGED session
       ELSE Respond(t, NotFound, th[t])
    /\ UNCHANGED <<now, ticks, cache, files, uuids, nreq, nfetches, handoff, served, invalidated, imgvars, fnvars>>

\* line 275-276: open(pdf_path, 'rb') and read; FileNotFoundError when the
\* file is gone by now
DlRead(t) ==
    /\ th[t].pc = "dl_read"
    /\ IF th[t].pdf_id \in DOMAIN files
       THEN /\ th' = [th EXCEPT ![t].pdf_bytes = files[th[t].pdf_id],
                                ![t].pc = "dl_remove"]
            /\ UNCHANGED session
       ELSE Respond(t, ServerError, th[t])
    /\ UNCHANGED <<now, ticks, cache, files, uuids, nreq, nfetches, handoff, served, invalidated, imgvars, fnvars>>

\* mutant: a file that is already gone is not an error for the removal
DlRemove_MissingOk(t) ==
    /\ th[t].pc = "dl_remove"
    /\ files' = [u \in DOMAIN files \ {th[t].pdf_id} |-> files[u]]
    /\ th' = [th EXCEPT ![t].pc = "dl_return"]
    /\ UNCHANGED <<now, ticks, cache, session, uuids, nreq, nfetches,
                   handoff, served, invalidated, imgvars, fnvars>>

\* line 277: os.remove(pdf_path); FileNotFoundError when the file is gone
DlRemove(t) ==
    /\ th[t].pc = "dl_remove"
    /\ IF th[t].pdf_id \in DOMAIN files
       THEN /\ files' = [u \in DOMAIN files \ {th[t].pdf_id} |-> files[u]]
            /\ th' = [th EXCEPT ![t].pc = "dl_return"]
            /\ UNCHANGED session
       ELSE /\ Respond(t, ServerError, th[t])
            /\ UNCHANGED files
    /\ UNCHANGED <<now, ticks, cache, uuids, nreq, nfetches, handoff, served, invalidated, imgvars, fnvars>>

\* line 278-281: del request.session[pdf_key]; return the bytes
DlReturn(t) ==
    /\ th[t].pc = "dl_return"
    /\ Respond(t, [NoResponse EXCEPT !.status = 200, !.kind = "pdf",
                       !.pdf = th[t].pdf_bytes],
               [th[t] EXCEPT
                   !.sess = [@ EXCEPT ![pdf_key(th[t].category, th[t].sizes[1])] = 0],
                   !.modified = TRUE])
    /\ handoff' = IF th[t].flushed THEN handoff
                  ELSE [handoff EXCEPT
                          ![<<th[t].category, th[t].sizes[1]>>].state = "taken"]
    /\ served' = IF th[t].flushed THEN served
                 ELSE IF th[t].pdf_id \in DOMAIN served
                 THEN [served EXCEPT ![th[t].pdf_id] = @ + 1]
                 ELSE served @@ (th[t].pdf_id :> 1)
    /\ UNCHANGED <<now, ticks, cache, files, uuids, nreq, nfetches, invalidated, imgvars, fnvars>>

\* --------------------------------------------------------------- user_logout
UserLogout(t) ==
    /\ Enter(t, "user_logout", "", <<>>, "lo_flush")
    /\ UNCHANGED <<now, ticks, cache, session, files, uuids, nfetches, handoff, served, invalidated, imgvars, fnvars>>

\* line 425-426: logout(request) flushes the session of the request, that is
\* deletes the stored session it loaded, and the view redirects to the login
\* page. When that session is the one in store, the requests that come later
\* belong to the session of the next login, which starts without pdf keys and
\* without documents handed to it, and the requests still under way hold a
\* session that is no longer stored. When the request's own session was
\* deleted before (th[t].flushed), there is nothing left to delete: the
\* session in store and the requests on it are not touched
LoFlush(t) ==
    /\ th[t].pc = "lo_flush"
    /\ session' = IF th[t].flushed THEN session ELSE EmptySession
    /\ th' = [u \in Threads |->
                IF u = t
                THEN [th[t] EXCEPT
                        !.pc = "done",
                        !.response = [NoResponse EXCEPT !.status = 302,
                                                        !.kind = "redirect"],
                        !.sess = EmptySession, !.flushed = FALSE]
                ELSE IF Free(u) \/ th[t].flushed THEN th[u]
                ELSE [th[u] EXCEPT !.flushed = TRUE]]
    /\ handoff' = IF th[t].flushed THEN handoff
                  ELSE [k \in DOMAIN handoff |-> [state |-> "none", doc |-> NoDoc]]
    /\ UNCHANGED <<now, ticks, cache, files, uuids, nreq, nfetches, served, invalidated, imgvars, fnvars>>

\* -------------------------------------------------------------------- clock
Tick ==
    /\ ticks < MaxTicks
    /\ \E d \in TickSteps : now' = now + d
    /\ ticks' = ticks + 1
    /\ UNCHANGED <<cache, session, files, uuids, nreq, nfetches, th, handoff, served, invalidated, imgvars, fnvars>>

\* ============================================================== characters
\* A string is the sequence of its characters. An ASCII character is written
\* as itself, any other character as its code point: U+00F3 is o with acute,
\* U+0301 the combining acute, U+00F8 o with stroke, U+0131 the dotless i.

\* the printable ASCII characters, from code point 32 to 126 (the grave accent
\* is written U+0060)
AsciiPrintable ==
    <<" ", "!", "\"", "#", "$", "%", "&", "'", "(", ")", "*", "+", ",", "-",
      ".", "/", "0", "1", "2", "3", "4", "5", "6", "7", "8", "9", ":", ";",
      "<", "=", ">", "?", "@", "A", "B", "C", "D", "E", "F", "G", "H", "I",
      "J", "K", "L", "M", "N", "O", "P", "Q", "R", "S", "T", "U", "V", "W",
      "X", "Y", "Z", "[", "\\", "]", "^", "_", "U+0060", "a", "b", "c", "d", "e",
      "f", "g", "h", "i", "j", "k", "l", "m", "n", "o", "p", "q", "r", "s",
      "t", "u", "v", "w", "x", "y", "z", "{", "|", "}", "~">>

\* the characters that encode('ascii', 'ignore') keeps (of the control
\* characters, the tab and the newline)
Ascii == {AsciiPrintable[k] : k \in 1..Len(AsciiPrintable)} \cup {"\t", "\n"}

\* Python's Unicode database for the characters of names, colors and sizes
\* outside ASCII: Latin-1 Supplement, Latin Extended-A and B, the combining
\* diacritical marks, Latin Extended Additional, and what lower() and NFD make
\* of them. ord is ord(c), lower is c.lower(), nfd is
\* unicodedata.normalize('NFD', c)
unicodedata ==
    <<[c |-> "U+0080", ord |-> 128, lower |-> <<"U+0080">>, nfd |-> <<"U+0080">>],
      [c |-> "U+0081", ord |-> 129, lower |-> <<"U+0081">>, nfd |-> <<"U+0081">>],
      [c |-> "U+0082", ord |-> 130, lower |-> <<"U+0082">>, nfd |-> <<"U+0082">>],
      [c |-> "U+0083", ord |-> 131, lower |-> <<"U+0083">>, nfd |-> <<"U+0083">>],
      [c |-> "U+0084", ord |-> 132, lower |-> <<"U+0084">>, nfd |-> <<"U+0084">>],
      [c |-> "U+0085", ord |-> 133, lower |-> <<"U+0085">>, nfd |-> <<"U+0085">>],
      [c |-> "U+0086", ord |-> 134, lower |-> <<"U+0086">>, nfd |-> <<"U+0086">>],
      [c |-> "U+0087", ord |-> 135, lower |-> <<"U+0087">>, nfd |-> <<"U+0087">>],
      [c |-> "U+0088", ord |-> 136, lower |-> <<"U+0088">>, nfd |-> <<"U+0088">>],
      [c |-> "U+0089", ord |-> 137, lower |-> <<"U+0089">>, nfd |-> <<"U+0089">>],
      [c |-> "U+008A", ord |-> 138, lower |-> <<"U+008A">>, nfd |-> <<"U+008A">>],
      [c |-> "U+008B", ord |-> 139, lower |-> <<"U+008B">>, nfd |-> <<"U+008B">>],
      [c |-> "U+008C", ord |-> 140, lower |-> <<"U+008C">>, nfd |-> <<"U+008C">>],
      [c |-> "U+008D", ord |-> 141, lower |-> <<"U+008D">>, nfd |-> <<"U+008D">>],
      [c |-> "U+008E", ord |-> 142, lower |-> <<"U+008E">>, nfd |-> <<"U+008E">>],
      [c |-> "U+008F", ord |-> 143, lower |-> <<"U+008F">>, nfd |-> <<"U+008F">>],
      [c |-> "U+0090", ord |-> 144, lower |-> <<"U+0090">>, nfd |-> <<"U+0090">>],
      [c |-> "U+0091", ord |-> 145, lower |-> <<"U+0091">>, nfd |-> <<"U+0091">>],
      [c |-> "U+0092", ord |-> 146, lower |-> <<"U+0092">>, nfd |-> <<"U+0092">>],
      [c |-> "U+0093", ord |-> 147, lower |-> <<"U+0093">>, nfd |-> <<"U+0093">>],
      [c |-> "U+0094", ord |-> 148, lower |-> <<"U+0094">>, nfd |-> <<"U+0094">>],
      [c |-> "U+0095", ord |-> 149, lower |-> <<"U+0095">>, nfd |-> <<"U+0095">>],
      [c |-> "U+0096", ord |-> 150, lower |-> <<"U+0096">>, nfd |-> <<"U+0096">>],
      [c |-> "U+0097", ord |-> 151, lower |-> <<"U+0097">>, nfd |-> <<"U+0097">>],
      [c |-> "U+0098", ord |-> 152, lower |-> <<"U+0098">>, nfd |-> <<"U+0098">>],
      [c |-> "U+0099", ord |-> 153, lower |-> <<"U+0099">>, nfd |-> <<"U+0099">>],
      [c |-> "U+009A", ord |-> 154, lower |-> <<"U+009A">>, nfd |-> <<"U+009A">>],
      [c |-> "U+009B", ord |-> 155, lower |-> <<"U+009B">>, nfd |-> <<"U+009B">>],
      [c |-> "U+009C", ord |-> 156, lower |-> <<"U+009C">>, nfd |-> <<"U+009C">>],
      [c |-> "U+009D", ord |-> 157, lower |-> <<"U+009D">>, nfd |-> <<"U+009D">>],
      [c |-> "U+009E", ord |-> 158, lower |-> <<"U+009E">>, nfd |-> <<"U+009E">>],
      [c |-> "U+009F", ord |-> 159, lower |-> <<"U+009F">>, nfd |-> <<"U+009F">>],
      [c |-> "U+00A0", ord |-> 160, lower |-> <<"U+00A0">>, nfd |-> <<"U+00A0">>],
      [c |-> "U+00A1", ord |-> 161, lower |-> <<"U+00A1">>, nfd |-> <<"U+00A1">>],
      [c |-> "U+00A2", ord |-> 162, lower |-> <<"U+00A2">>, nfd |-> <<"U+00A2">>],
      [c |-> "U+00A3", ord |-> 163, lower |-> <<"U+00A3">>, nfd |-> <<"U+00A3">>],
      [c |-> "U+00A4", ord |-> 164, lower |-> <<"U+00A4">>, nfd |-> <<"U+00A4">>],
      [c |-> "U+00A5", ord |-> 165, lower |-> <<"U+00A5">>, nfd |-> <<"U+00A5">>],
      [c |-> "U+00A6", ord |-> 166, lower |-> <<"U+00A6">>, nfd |-> <<"U+00A6">>],
      [c |-> "U+00A7", ord |-> 167, lower |-> <<"U+00A7">>, nfd |-> <<"U+00A7">>],
      [c |-> "U+00A8", ord |-> 168, lower |-> <<"U+00A8">>, nfd |-> <<"U+00A8">>],
      [c |-> "U+00A9", ord |-> 169, lower |-> <<"U+00A9">>, nfd |-> <<"U+00A9">>],
      [c |-> "U+00AA", ord |-> 170, lower |-> <<"U+00AA">>, nfd |-> <<"U+00AA">>],
      [c |-> "U+00AB", ord |-> 171, lower |-> <<"U+00AB">>, nfd |-> <<"U+00AB">>],
      [c |-> "U+00AC", ord |-> 172, lower |-> <<"U+00AC">>, nfd |-> <<"U+00AC">>],
      [c |-> "U+00AD", ord |-> 173, lower |-> <<"U+00AD">>, nfd |-> <<"U+00AD">>],
      [c |-> "U+00AE", ord |-> 174, lower |-> <<"U+00AE">>, nfd |-> <<"U+00AE">>],
      [c |-> "U+00AF", ord |-> 175, lower |-> <<"U+00AF">>, nfd |-> <<"U+00AF">>],
      [c |-> "U+00B0", ord |-> 176, lower |-> <<"U+00B0">>, nfd |-> <<"U+00B0">>],
      [c |-> "U+00B1", ord |-> 177, lower |-> <<"U+00B1">>, nfd |-> <<"U+00B1">>],
      [c |-> "U+00B2", ord |-> 178, lower |-> <<"U+00B2">>, nfd |-> <<"U+00B2">>],
      [c |-> "U+00B3", ord |-> 179, lower |-> <<"U+00B3">>, nfd |-> <<"U+00B3">>],
      [c |-> "U+00B4", ord |-> 180, lower |-> <<"U+00B4">>, nfd |-> <<"U+00B4">>],
      [c |-> "U+00B5", ord |-> 181, lower |-> <<"U+00B5">>, nfd |-> <<"U+00B5">>],
      [c |-> "U+00B6", ord |-> 182, lower |-> <<"U+00B6">>, nfd |-> <<"U+00B6">>],
      [c |-> "U+00B7", ord |-> 183, lower |-> <<"U+00B7">>, nfd |-> <<"U+00B7">>],
      [c |-> "U+00B8", ord |-> 184, lower |-> <<"U+00B8">>, nfd |-> <<"U+00B8">>],
      [c |-> "U+00B9", ord |-> 185, lower |-> <<"U+00B9">>, nfd |-> <<"U+00B9">>],
      [c |-> "U+00BA", ord |-> 186, lower |-> <<"U+00BA">>, nfd |-> <<"U+00BA">>],
      [c |-> "U+00BB", ord |-> 187, lower |-> <<"U+00BB">>, nfd |-> <<"U+00BB">>],
      [c |-> "U+00BC", ord |-> 188, lower |-> <<"U+00BC">>, nfd |-> <<"U+00BC">>],
      [c |-> "U+00BD", ord |-> 189, lower |-> <<"U+00BD">>, nfd |-> <<"U+00BD">>],
      [c |-> "U+00BE", ord |-> 190, lower |-> <<"U+00BE">>, nfd |-> <<"U+00BE">>],
      [c |-> "U+00BF", ord |-> 191, lower |-> <<"U+00BF">>, nfd |-> <<"U+00BF">>],
      [c |-> "U+00C0", ord |-> 192, lower |-> <<"U+00E0">>, nfd |-> <<"A", "U+0300">>],
      [c |-> "U+00C1", ord |-> 193, lower |-> <<"U+00E1">>, nfd |-> <<"A", "U+0301">>],
      [c |-> "U+00C2", ord |-> 194, lower |-> <<"U+00E2">>, nfd |-> <<"A", "U+0302">>],
      [c |-> "U+00C3", ord |-> 195, lower |-> <<"U+00E3">>, nfd |-> <<"A", "U+0303">>],
      [c |-> "U+00C4", ord |-> 196, lower |-> <<"U+00E4">>, nfd |-> <<"A", "U+0308">>],
      [c |-> "U+00C5", ord |-> 197, lower |-> <<"U+00E5">>, nfd |-> <<"A", "U+030A">>],
      [c |-> "U+00C6", ord |-> 198, lower |-> <<"U+00E6">>, nfd |-> <<"U+00C6">>],
      [c |-> "U+00C7", ord |-> 199, lower |-> <<"U+00E7">>, nfd |-> <<"C", "U+0327">>],
      [c |-> "U+00C8", ord |-> 200, lower |-> <<"U+00E8">>, nfd |-> <<"E", "U+0300">>],
      [c |-> "U+00C9", ord |-> 201, lower |-> <<"U+00E9">>, nfd |-> <<"E", "U+0301">>],
      [c |-> "U+00CA", ord |-> 202, lower |-> <<"U+00EA">>, nfd |-> <<"E", "U+0302">>],
      [c |-> "U+00CB", ord |-> 203, lower |-> <<"U+00EB">>, nfd |-> <<"E", "U+0308">>],
      [c |-> "U+00CC", ord |-> 204, lower |-> <<"U+00EC">>, nfd |-> <<"I", "U+0300">>],
      [c |-> "U+00CD", ord |-> 205, lower |-> <<"U+00ED">>, nfd |-> <<"I", "U+0301">>],
      [c |-> "U+00CE", ord |-> 206, lower |-> <<"U+00EE">>, nfd |-> <<"I", "U+0302">>],
      [c |-> "U+00CF", ord |-> 207, lower |-> <<"U+00EF">>, nfd |-> <<"I", "U+0308">>],
      [c |-> "U+00D0", ord |-> 208, lower |-> <<"U+00F0">>, nfd |-> <<"U+00D0">>],
      [c |-> "U+00D1", ord |-> 209, lower |-> <<"U+00F1">>, nfd |-> <<"N", "U+0303">>],
      [c |-> "U+00D2", ord |-> 210, lower |-> <<"U+00F2">>, nfd |-> <<"O", "U+0300">>],
      [c |-> "U+00D3", ord |-> 211, lower |-> <<"U+00F3">>, nfd |-> <<"O", "U+0301">>],
      [c |-> "U+00D4", ord |-> 212, lower |-> <<"U+00F4">>, nfd |-> <<"O", "U+0302">>],
      [c |-> "U+00D5", ord |-> 213, lower |-> <<"U+00F5">>, nfd |-> <<"O", "U+0303">>],
      [c |-> "U+00D6", ord |-> 214, lower |-> <<"U+00F6">>, nfd |-> <<"O", "U+0308">>],
      [c |-> "U+00D7", ord |-> 215, lower |-> <<"U+00D7">>, nfd |-> <<"U+00D7">>],
      [c |-> "U+00D8", ord |-> 216, lower |-> <<"U+00F8">>, nfd |-> <<"U+00D8">>],
      [c |-> "U+00D9", ord |-> 217, lower |-> <<"U+00F9">>, nfd |-> <<"U", "U+0300">>],
      [c |-> "U+00DA", ord |-> 218, lower |-> <<"U+00FA">>, nfd |-> <<"U", "U+0301">>],
      [c |-> "U+00DB", ord |-> 219, lower |-> <<"U+00FB">>, nfd |-> <<"U", "U+0302">>],
      [c |-> "U+00DC", ord |-> 220, lower |-> <<"U+00FC">>, nfd |-> <<"U", "U+0308">>],
      [c |-> "U+00DD", ord |-> 221, lower |-> <<"U+00FD">>, nfd |-> <<"Y", "U+0301">>],
      [c |-> "U+00DE", ord |-> 222, lower |-> <<"U+00FE">>, nfd |-> <<"U+00DE">>],
      [c |-> "U+00DF", ord |-> 223, lower |-> <<"U+00DF">>, nfd |-> <<"U+00DF">>],
      [c |-> "U+00E0", ord |-> 224, lower |-> <<"U+00E0">>, nfd |-> <<"a", "U+0300">>],
      [c |-> "U+00E1", ord |-> 225, lower |-> <<"U+00E1">>, nfd |-> <<"a", "U+0301">>],
      [c |-> "U+00E2", ord |-> 226, lower |-> <<"U+00E2">>, nfd |-> <<"a", "U+0302">>],
      [c |-> "U+00E3", ord |-> 227, lower |-> <<"U+00E3">>, nfd |-> <<"a", "U+0303">>],
      [c |-> "U+00E4", ord |-> 228, lower |-> <<"U+00E4">>, nfd |-> <<"a", "U+0308">>],
      [c |-> "U+00E5", ord |-> 229, lower |-> <<"U+00E5">>, nfd |-> <<"a", "U+030A">>],
      [c |-> "U+00E6", ord |-> 230, lower |-> <<"U+00E6">>, nfd |-> <<"U+00E6">>],
      [c |-> "U+00E7", ord |-> 231, lower |-> <<"U+00E7">>, nfd |-> <<"c", "U+0327">>],
      [c |-> "U+00E8", ord |-> 232, lower |-> <<"U+00E8">>, nfd |-> <<"e", "U+0300">>],
      [c |-> "U+00E9", ord |-> 233, lower |-> <<"U+00E9">>, nfd |-> <<"e", "U+0301">>],
      [c |-> "U+00EA", ord |-> 234, lower |-> <<"U+00EA">>, nfd |-> <<"e", "U+0302">>],
      [c |-> "U+00EB", ord |-> 235, lower |-> <<"U+00EB">>, nfd |-> <<"e", "U+0308">>],
      [c |-> "U+00EC", ord |-> 236, lower |-> <<"U+00EC">>, nfd |-> <<"i", "U+0300">>],
      [c |-> "U+00ED", ord |-> 237, lower |-> <<"U+00ED">>, nfd |-> <<"i", "U+0301">>],
      [c |-> "U+00EE", ord |-> 238, lower |-> <<"U+00EE">>, nfd |-> <<"i", "U+0302">>],
      [c |-> "U+00EF", ord |-> 239, lower |-> <<"U+00EF">>, nfd |-> <<"i", "U+0308">>],
      [c |-> "U+00F0", ord |-> 240, lower |-> <<"U+00F0">>, nfd |-> <<"U+00F0">>],
      [c |-> "U+00F1", ord |-> 241, lower |-> <<"U+00F1">>, nfd |-> <<"n", "U+0303">>],
      [c |-> "U+00F2", ord |-> 242, lower |-> <<"U+00F2">>, nfd |-> <<"o", "U+0300">>],
      [c |-> "U+00F3", ord |-> 243, lower |-> <<"U+00F3">>, nfd |-> <<"o", "U+0301">>],
      [c |-> "U+00F4", ord |-> 244, lower |-> <<"U+00F4">>, nfd |-> <<"o", "U+0302">>],
      [c |-> "U+00F5", ord |-> 245, lower |-> <<"U+00F5">>, nfd |-> <<"o", "U+0303">>],
      [c |-> "U+00F6", ord |-> 246, lower |-> <<"U+00F6">>, nfd |-> <<"o", "U+0308">>],
      [c |-> "U+00F7", ord |-> 247, lower |-> <<"U+00F7">>, nfd |-> <<"U+00F7">>],
      [c |-> "U+00F8", ord |-> 248, lower |-> <<"U+00F8">>, nfd |-> <<"U+00F8">>],
      [c |-> "U+00F9", ord |-> 249, lower |-> <<"U+00F9">>, nfd |-> <<"u", "U+0300">>],
      [c |-> "U+00FA", ord |-> 250, lower |-> <<"U+00FA">>, nfd |-> <<"u", "U+0301">>],
      [c |-> "U+00FB", ord |-> 251, lower |-> <<"U+00FB">>, nfd |-> <<"u", "U+0302">>],
      [c |-> "U+00FC", ord |-> 252, lower |-> <<"U+00FC">>, nfd |-> <<"u", "U+0308">>],
      [c |-> "U+00FD", ord |-> 253, lower |-> <<"U+00FD">>, nfd |-> <<"y", "U+0301">>],
      [c |-> "U+00FE", ord |-> 254, lower |-> <<"U+00FE">>, nfd |-> <<"U+00FE">>],
      [c |-> "U+00FF", ord |-> 255, lower |-> <<"U+00FF">>, nfd |-> <<"y", "U+0308">>],
      [c |-> "U+0100", ord |-> 256, lower |-> <<"U+0101">>, nfd |-> <<"A", "U+0304">>],
      [c |-> "U+0101", ord |-> 257, lower |-> <<"U+0101">>, nfd |-> <<"a", "U+0304">>],
      [c |-> "U+0102", ord |-> 258, lower |-> <<"U+0103">>, nfd |-> <<"A", "U+0306">>],
      [c |-> "U+0103", ord |-> 259, lower |-> <<"U+0103">>, nfd |-> <<"a", "U+0306">>],
      [c |-> "U+0104", ord |-> 260, lower |-> <<"U+0105">>, nfd |-> <<"A", "U+0328">>],
      [c |-> "U+0105", ord |-> 261, lower |-> <<"U+0105">>, nfd |-> <<"a", "U+0328">>],
      [c |-> "U+0106", ord |-> 262, lower |-> <<"U+0107">>, nfd |-> <<"C", "U+0301">>],
      [c |-> "U+0107", ord |-> 263, lower |-> <<"U+0107">>, nfd |-> <<"c", "U+0301">>],
      [c |-> "U+0108", ord |-> 264, lower |-> <<"U+0109">>, nfd |-> <<"C", "U+0302">>],
      [c |-> "U+0109", ord |-> 265, lower |-> <<"U+0109">>, nfd |-> <<"c", "U+0302">>],
      [c |-> "U+010A", ord |-> 266, lower |-> <<"U+010B">>, nfd |-> <<"C", "U+0307">>],
      [c |-> "U+010B", ord |-> 267, lower |-> <<"U+010B">>, nfd |-> <<"c", "U+0307">>],
      [c |-> "U+010C", ord |-> 268, lower |-> <<"U+010D">>, nfd |-> <<"C", "U+030C">>],
      [c |-> "U+010D", ord |-> 269, lower |-> <<"U+010D">>, nfd |-> <<"c", "U+030C">>],
      [c |-> "U+010E", ord |-> 270, lower |-> <<"U+010F">>, nfd |-> <<"D", "U+030C">>],
      [c |-> "U+010F", ord |-> 271, lower |-> <<"U+010F">>, nfd |-> <<"d", "U+030C">>],
      [c |-> "U+0110", ord |-> 272, lower |-> <<"U+0111">>, nfd |-> <<"U+0110">>],
      [c |-> "U+0111", ord |-> 273, lower |-> <<"U+0111">>, nfd |-> <<"U+0111">>],
      [c |-> "U+0112", ord |-> 274, lower |-> <<"U+0113">>, nfd |-> <<"E", "U+0304">>],
      [c |-> "U+0113", ord |-> 275, lower |-> <<"U+0113">>, nfd |-> <<"e", "U+0304">>],
      [c |-> "U+0114", ord |-> 276, lower |-> <<"U+0115">>, nfd |-> <<"E", "U+0306">>],
      [c |-> "U+0115", ord |-> 277, lower |-> <<"U+0115">>, nfd |-> <<"e", "U+0306">>],
      [c |-> "U+0116", ord |-> 278, lower |-> <<"U+0117">>, nfd |-> <<"E", "U+0307">>],
      [c |-> "U+0117", ord |-> 279, lower |-> <<"U+0117">>, nfd |-> <<"e", "U+0307">>],
      [c |-> "U+0118", ord |-> 280, lower |-> <<"U+0119">>, nfd |-> <<"E", "U+0328">>],
      [c |-> "U+0119", ord |-> 281, lower |-> <<"U+0119">>, nfd |-> <<"e", "U+0328">>],
      [c |-> "U+011A", ord |-> 282, lower |-> <<"U+011B">>, nfd |-> <<"E", "U+030C">>],
      [c |-> "U+011B", ord |-> 283, lower |-> <<"U+011B">>, nfd |-> <<"e", "U+030C">>],
      [c |-> "U+011C", ord |-> 284, lower |-> <<"U+011D">>, nfd |-> <<"G", "U+0302">>],
      [c |-> "U+011D", ord |-> 285, lower |-> <<"U+011D">>, nfd |-> <<"g", "U+0302">>],
      [c |-> "U+011E", ord |-> 286, lower |-> <<"U+011F">>, nfd |-> <<"G", "U+0306">>],
      [c |-> "U+011F", ord |-> 287, lower |-> <<"U+011F">>, nfd |-> <<"g", "U+0306">>],
      [c |-> "U+0120", ord |-> 288, lower |-> <<"U+0121">>, nfd |-> <<"G", "U+0307">>],
      [c |-> "U+0121", ord |-> 289, lower |-> <<"U+0121">>, nfd |-> <<"g", "U+0307">>],
      [c |-> "U+0122", ord |-> 290, lower |-> <<"U+0123">>, nfd |-> <<"G", "U+0327">>],
      [c |-> "U+0123", ord |-> 291, lower |-> <<"U+0123">>, nfd |-> <<"g", "U+0327">>],
      [c |-> "U+0124", ord |-> 292, lower |-> <<"U+0125">>, nfd |-> <<"H", "U+0302">>],
      [c |-> "U+0125", ord |-> 293, lower |-> <<"U+0125">>, nfd |-> <<"h", "U+0302">>],
      [c |-> "U+0126", ord |-> 294, lower |-> <<"U+0127">>, nfd |-> <<"U+0126">>],
      [c |-> "U+0127", ord |-> 295, lower |-> <<"U+0127">>, nfd |-> <<"U+0127">>],
      [c |-> "U+0128", ord |-> 296, lower |-> <<"U+0129">>, nfd |-> <<"I", "U+0303">>],
      [c |-> "U+0129", ord |-> 297, lower |-> <<"U+0129">>, nfd |-> <<"i", "U+0303">>],
      [c |-> "U+012A", ord |-> 298, lower |-> <<"U+012B">>, nfd |-> <<"I", "U+0304">>],
      [c |-> "U+012B", ord |-> 299, lower |-> <<"U+012B">>, nfd |-> <<"i", "U+0304">>],
      [c |-> "U+012C", ord |-> 300, lower |-> <<"U+012D">>, nfd |-> <<"I", "U+0306">>],
      [c |-> "U+012D", ord |-> 301, lower |-> <<"U+012D">>, nfd |-> <<"i", "U+0306">>],
      [c |-> "U+012E", ord |-> 302, lower |-> <<"U+012F">>, nfd |-> <<"I", "U+0328">>],
      [c |-> "U+012F", ord |-> 303, lower |-> <<"U+012F">>, nfd |-> <<"i", "U+0328">>],
      [c |-> "U+0130", ord |-> 304, lower |-> <<"i", "U+0307">>, nfd |-> <<"I", "U+0307">>],
      [c |-> "U+0131", ord |-> 305, lower |-> <<"U+0131">>, nfd |-> <<"U+0131">>],
      [c |-> "U+0132", ord |-> 306, lower |-> <<"U+0133">>, nfd |-> <<"U+0132">>],
      [c |-> "U+0133", ord |-> 307, lower |-> <<"U+0133">>, nfd |-> <<"U+0133">>],
      [c |-> "U+0134", ord |-> 308, lower |-> <<"U+0135">>, nfd |-> <<"J", "U+0302">>],
      [c |-> "U+0135", ord |-> 309, lower |-> <<"U+0135">>, nfd |-> <<"j", "U+0302">>],
      [c |-> "U+0136", ord |-> 310, lower |-> <<"U+0137">>, nfd |-> <<"K", "U+0327">>],
      [c |-> "U+0137", ord |-> 311, lower |-> <<"U+0137">>, nfd |-> <<"k", "U+0327">>],
      [c |-> "U+0138", ord |-> 312, lower |-> <<"U+0138">>, nfd |-> <<"U+0138">>],
      [c |-> "U+0139", ord |-> 313, lower |-> <<"U+013A">>, nfd |-> <<"L", "U+0301">>],
      [c |-> "U+013A", ord |-> 314, lower |-> <<"U+013A">>, nfd |-> <<"l", "U+0301">>],
      [c |-> "U+013B", ord |-> 315, lower |-> <<"U+013C">>, nfd |-> <<"L", "U+0327">>],
      [c |-> "U+013C", ord |-> 316, lower |-> <<"U+013C">>, nfd |-> <<"l", "U+0327">>],
      [c |-> "U+013D", ord |-> 317, lower |-> <<"U+013E">>, nfd |-> <<"L", "U+030C">>],
      [c |-> "U+013E", ord |-> 318, lower |-> <<"U+013E">>, nfd |-> <<"l", "U+030C">>],
      [c |-> "U+013F", ord |-> 319, lower |-> <<"U+0140">>, nfd |-> <<"U+013F">>],
      [c |-> "U+0140", ord |-> 320, lower |-> <<"U+0140">>, nfd |-> <<"U+0140">>],
      [c |-> "U+0141", ord |-> 321, lower |-> <<"U+0142">>, nfd |-> <<"U+0141">>],
      [c |-> "U+0142", ord |-> 322, lower |-> <<"U+0142">>, nfd |-> <<"U+0142">>],
      [c |-> "U+0143", ord |-> 323, lower |-> <<"U+0144">>, nfd |-> <<"N", "U+0301">>],
      [c |-> "U+0144", ord |-> 324, lower |-> <<"U+0144">>, nfd |-> <<"n", "U+0301">>],
      [c |-> "U+0145", ord |-> 325, lower |-> <<"U+0146">>, nfd |-> <<"N", "U+0327">>],
      [c |-> "U+0146", ord |-> 326, lower |-> <<"U+0146">>, nfd |-> <<"n", "U+0327">>],
      [c |-> "U+0147", ord |-> 327, lower |-> <<"U+0148">>, nfd |-> <<"N", "U+030C">>],
      [c |-> "U+0148", ord |-> 328, lower |-> <<"U+0148">>, nfd |-> <<"n", "U+030C">>],
      [c |-> "U+0149", ord |-> 329, lower |-> <<"U+0149">>, nfd |-> <<"U+0149">>],
      [c |-> "U+014A", ord |-> 330, lower |-> <<"U+014B">>, nfd |-> <<"U+014A">>],
      [c |-> "U+014B", ord |-> 331, lower |-> <<"U+014B">>, nfd |-> <<"U+014B">>],
      [c |-> "U+014C", ord |-> 332, lower |-> <<"U+014D">>, nfd |-> <<"O", "U+0304">>],
      [c |-> "U+014D", ord |-> 333, lower |-> <<"U+014D">>, nfd |-> <<"o", "U+0304">>],
      [c |-> "U+014E", ord |-> 334, lower |-> <<"U+014F">>, nfd |-> <<"O", "U+0306">>],
      [c |-> "U+014F", ord |-> 335, lower |-> <<"U+014F">>, nfd |-> <<"o", "U+0306">>],
      [c |-> "U+0150", ord |-> 336, lower |-> <<"U+0151">>, nfd |-> <<"O", "U+030B">>],
      [c |-> "U+0151", ord |-> 337, lower |-> <<"U+0151">>, nfd |-> <<"o", "U+030B">>],
      [c |-> "U+0152", ord |-> 338, lower |-> <<"U+0153">>, nfd |-> <<"U+0152">>],
      [c |-> "U+0153", ord |-> 339, lower |-> <<"U+0153">>, nfd |-> <<"U+0153">>],
      [c |-> "U+0154", ord |-> 340, lower |-> <<"U+0155">>, nfd |-> <<"R", "U+0301">>],
      [c |-> "U+0155", ord |-> 341, lower |-> <<"U+0155">>, nfd |-> <<"r", "U+0301">>],
      [c |-> "U+0156", ord |-> 342, lower |-> <<"U+0157">>, nfd |-> <<"R", "U+0327">>],
      [c |-> "U+0157", ord |-> 343, lower |-> <<"U+0157">>, nfd |-> <<"r", "U+0327">>],
      [c |-> "U+0158", ord |-> 344, lower |-> <<"U+0159">>, nfd |-> <<"R", "U+030C">>],
      [c |-> "U+0159", ord |-> 345, lower |-> <<"U+0159">>, nfd |-> <<"r", "U+030C">>],
      [c |-> "U+015A", ord |-> 346, lower |-> <<"U+015B">>, nfd |-> <<"S", "U+0301">>],
      [c |-> "U+015B", ord |-> 347, lower |-> <<"U+015B">>, nfd |-> <<"s", "U+0301">>],
      [c |-> "U+015C", ord |-> 348, lower |-> <<"U+015D">>, nfd |-> <<"S", "U+0302">>],
      [c |-> "U+015D", ord |-> 349, lower |-> <<"U+015D">>, nfd |-> <<"s", "U+0302">>],
      [c |-> "U+015E", ord |-> 350, lower |-> <<"U+015F">>, nfd |-> <<"S", "U+0327">>],
      [c |-> "U+015F", ord |-> 351, lower |-> <<"U+015F">>, nfd |-> <<"s", "U+0327">>],
      [c |-> "U+0160", ord |-> 352, lower |-> <<"U+0161">>, nfd |-> <<"S", "U+030C">>],
      [c |-> "U+0161", ord |-> 353, lower |-> <<"U+0161">>, nfd |-> <<"s", "U+030C">>],
      [c |-> "U+0162", ord |-> 354, lower |-> <<"U+0163">>, nfd |-> <<"T", "U+0327">>],
      [c |-> "U+0163", ord |-> 355, lower |-> <<"U+0163">>, nfd |-> <<"t", "U+0327">>],
      [c |-> "U+0164", ord |-> 356, lower |-> <<"U+0165">>, nfd |-> <<"T", "U+030C">>],
      [c |-> "U+0165", ord |-> 357, lower |-> <<"U+0165">>, nfd |-> <<"t", "U+030C">>],
      [c |-> "U+0166", ord |-> 358, lower |-> <<"U+0167">>, nfd |-> <<"U+0166">>],
      [c |-> "U+0167", ord |-> 359, lower |-> <<"U+0167">>, nfd |-> <<"U+0167">>],
      [c |-> "U+0168", ord |-> 360, lower |-> <<"U+0169">>, nfd |-> <<"U", "U+0303">>],
      [c |-> "U+0169", ord |-> 361, lower |-> <<"U+0169">>, nfd |-> <<"u", "U+0303">>],
      [c |-> "U+016A", ord |-> 362, lower |-> <<"U+016B">>, nfd |-> <<"U", "U+0304">>],
      [c |-> "U+016B", ord |-> 363, lower |-> <<"U+016B">>, nfd |-> <<"u", "U+0304">>],
      [c |-> "U+016C", ord |-> 364, lower |-> <<"U+016D">>, nfd |-> <<"U", "U+0306">>],
      [c |-> "U+016D", ord |-> 365, lower |-> <<"U+016D">>, nfd |-> <<"u", "U+0306">>],
      [c |-> "U+016E", ord |-> 366, lower |-> <<"U+016F">>, nfd |-> <<"U", "U+030A">>],
      [c |-> "U+016F", ord |-> 367, lower |-> <<"U+016F">>, nfd |-> <<"u", "U+030A">>],
      [c |-> "U+0170", ord |-> 368, lower |-> <<"U+0171">>, nfd |-> <<"U", "U+030B">>],
      [c |-> "U+0171", ord |-> 369, lower |-> <<"U+0171">>, nfd |-> <<"u", "U+030B">>],
      [c |-> "U+0172", ord |-> 370, lower |-> <<"U+0173">>, nfd |-> <<"U", "U+0328">>],
      [c |-> "U+0173", ord |-> 371, lower |-> <<"U+0173">>, nfd |-> <<"u", "U+0328">>],
      [c |-> "U+0174", ord |-> 372, lower |-> <<"U+0175">>, nfd |-> <<"W", "U+0302">>],
      [c |-> "U+0175", ord |-> 373, lower |-> <<"U+0175">>, nfd |-> <<"w", "U+0302">>],
      [c |-> "U+0176", ord |-> 374, lower |-> <<"U+0177">>, nfd |-> <<"Y", "U+0302">>],
      [c |-> "U+0177", ord |-> 375, lower |-> <<"U+0177">>, nfd |-> <<"y", "U+0302">>],
      [c |-> "U+0178", ord |-> 376, lower |-> <<"U+00FF">>, nfd |-> <<"Y", "U+0308">>],
      [c |-> "U+0179", ord |-> 377, lower |-> <<"U+017A">>, nfd |-> <<"Z", "U+0301">>],
      [c |-> "U+017A", ord |-> 378, lower |-> <<"U+017A">>, nfd |-> <<"z", "U+0301">>],
      [c |-> "U+017B", ord |-> 379, lower |-> <<"U+017C">>, nfd |-> <<"Z", "U+0307">>],
      [c |-> "U+017C", ord |-> 380, lower |-> <<"U+017C">>, nfd |-> <<"z", "U+0307">>],
      [c |-> "U+017D", ord |-> 381, lower |-> <<"U+017E">>, nfd |-> <<"Z", "U+030C">>],
      [c |-> "U+017E", ord |-> 382, lower |-> <<"U+017E">>, nfd |-> <<"z", "U+030C">>],
      [c |-> "U+017F", ord |-> 383, lower |-> <<"U+017F">>, nfd |-> <<"U+017F">>],
      [c |-> "U+0180", ord |-> 384, lower |-> <<"U+0180">>, nfd |-> <<"U+0180">>],
      [c |-> "U+0181", ord |-> 385, lower |-> <<"U+0253">>, nfd |-> <<"U+0181">>],
      [c |-> "U+0182", ord |-> 386, lower |-> <<"U+0183">>, nfd |-> <<"U+0182">>],
      [c |-> "U+0183", ord |-> 387, lower |-> <<"U+0183">>, nfd |-> <<"U+0183">>],
      [c |-> "U+0184", ord |-> 388, lower |-> <<"U+0185">>, nfd |-> <<"U+0184">>],
      [c |-> "U+0185", ord |-> 389, lower |-> <<"U+0185">>, nfd |-> <<"U+0185">>],
      [c |-> "U+0186", ord |-> 390, lower |-> <<"U+0254">>, nfd |-> <<"U+0186">>],
      [c |-> "U+0187", ord |-> 391, lower |-> <<"U+0188">>, nfd |-> <<"U+0187">>],
      [c |-> "U+0188", ord |-> 392, lower |-> <<"U+0188">>, nfd |-> <<"U+0188">>],
      [c |-> "U+0189", ord |-> 393, lower |-> <<"U+0256">>, nfd |-> <<"U+0189">>],
      [c |-> "U+018A", ord |-> 394, lower |-> <<"U+0257">>, nfd |-> <<"U+018A">>],
      [c |-> "U+018B", ord |-> 395, lower |-> <<"U+018C">>, nfd |-> <<"U+018B">>],
      [c |-> "U+018C", ord |-> 396, lower |-> <<"U+018C">>, nfd |-> <<"U+018C">>],
      [c |-> "U+018D", ord |-> 397, lower |-> <<"U+018D">>, nfd |-> <<"U+018D">>],
      [c |-> "U+018E", ord |-> 398, lower |-> <<"U+01DD">>, nfd |-> <<"U+018E">>],
      [c |-> "U+018F", ord |-> 399, lower |-> <<"U+0259">>, nfd |-> <<"U+018F">>],
      [c |-> "U+0190", ord |-> 400, lower |-> <<"U+025B">>, nfd |-> <<"U+0190">>],
      [c |-> "U+0191", ord |-> 401, lower |-> <<"U+0192">>, nfd |-> <<"U+0191">>],
      [c |-> "U+0192", ord |-> 402, lower |-> <<"U+0192">>, nfd |-> <<"U+0192">>],
      [c |-> "U+0193", ord |-> 403, lower |-> <<"U+0260">>, nfd |-> <<"U+0193">>],
      [c |-> "U+0194", ord |-> 404, lower |-> <<"U+0263">>, nfd |-> <<"U+0194">>],
      [c |-> "U+0195", ord |-> 405, lower |-> <<"U+0195">>, nfd |-> <<"U+0195">>],
      [c |-> "U+0196", ord |-> 406, lower |-> <<"U+0269">>, nfd |-> <<"U+0196">>],
      [c |-> "U+0197", ord |-> 407, lower |-> <<"U+0268">>, nfd |-> <<"U+0197">>],
      [c |-> "U+0198", ord |-> 408, lower |-> <<"U+0199">>, nfd |-> <<"U+0198">>],
      [c |-> "U+0199", ord |-> 409, lower |-> <<"U+0199">>, nfd |-> <<"U+0199">>],
      [c |-> "U+019A", ord |-> 410, lower |-> <<"U+019A">>, nfd |-> <<"U+019A">>],
      [c |-> "U+019B", ord |-> 411, lower |-> <<"U+019B">>, nfd |-> <<"U+019B">>],
      [c |-> "U+019C", ord |-> 412, lower |-> <<"U+026F">>, nfd |-> <<"U+019C">>],
      [c |-> "U+019D", ord |-> 413, lower |-> <<"U+0272">>, nfd |-> <<"U+019D">>],
      [c |-> "U+019E", ord |-> 414, lower |-> <<"U+019E">>, nfd |-> <<"U+019E">>],
      [c |-> "U+019F", ord |-> 415, lower |-> <<"U+0275">>, nfd |-> <<"U+019F">>],
      [c |-> "U+01A0", ord |-> 416, lower |-> <<"U+01A1">>, nfd |-> <<"O", "U+031B">>],
      [c |-> "U+01A1", ord |-> 417, lower |-> <<"U+01A1">>, nfd |-> <<"o", "U+031B">>],
      [c |-> "U+01A2", ord |-> 418, lower |-> <<"U+01A3">>, nfd |-> <<"U+01A2">>],
      [c |-> "U+01A3", ord |-> 419, lower |-> <<"U+01A3">>, nfd |-> <<"U+01A3">>],
      [c |-> "U+01A4", ord |-> 420, lower |-> <<"U+01A5">>, nfd |-> <<"U+01A4">>],
      [c |-> "U+01A5", ord |-> 421, lower |-> <<"U+01A5">>, nfd |-> <<"U+01A5">>],
      [c |-> "U+01A6", ord |-> 422, lower |-> <<"U+0280">>, nfd |-> <<"U+01A6">>],
      [c |-> "U+01A7", ord |-> 423, lower |-> <<"U+01A8">>, nfd |-> <<"U+01A7">>],
      [c |-> "U+01A8", ord |-> 424, lower |-> <<"U+01A8">>, nfd |-> <<"U+01A8">>],
      [c |-> "U+01A9", ord |-> 425, lower |-> <<"U+0283">>, nfd |-> <<"U+01A9">>],
      [c |-> "U+01AA", ord |-> 426, lower |-> <<"U+01AA">>, nfd |-> <<"U+01AA">>],
      [c |-> "U+01AB", ord |-> 427, lower |-> <<"U+01AB">>, nfd |-> <<"U+01AB">>],
      [c |-> "U+01AC", ord |-> 428, lower |-> <<"U+01AD">>, nfd |-> <<"U+01AC">>],
      [c |-> "U+01AD", ord |-> 429, lower |-> <<"U+01AD">>, nfd |-> <<"U+01AD">>],
      [c |-> "U+01AE", ord |-> 430, lower |-> <<"U+0288">>, nfd |-> <<"U+01AE">>],
      [c |-> "U+01AF", ord |-> 431, lower |-> <<"U+01B0">>, nfd |-> <<"U", "U+031B">>],
      [c |-> "U+01B0", ord |-> 432, lower |-> <<"U+01B0">>, nfd |-> <<"u", "U+031B">>],
      [c |-> "U+01B1", ord |-> 433, lower |-> <<"U+028A">>, nfd |-> <<"U+01B1">>],
      [c |-> "U+01B2", ord |-> 434, lower |-> <<"U+028B">>, nfd |-> <<"U+01B2">>],
      [c |-> "U+01B3", ord |-> 435, lower |-> <<"U+01B4">>, nfd |-> <<"U+01B3">>],
      [c |-> "U+01B4", ord |-> 436, lower |-> <<"U+01B4">>, nfd |-> <<"U+01B4">>],
      [c |-> "U+01B5", ord |-> 437, lower |-> <<"U+01B6">>, nfd |-> <<"U+01B5">>],
      [c |-> "U+01B6", ord |-> 438, lower |-> <<"U+01B6">>, nfd |-> <<"U+01B6">>],
      [c |-> "U+01B7", ord |-> 439, lower |-> <<"U+0292">>, nfd |-> <<"U+01B7">>],
      [c |-> "U+01B8", ord |-> 440, lower |-> <<"U+01B9">>, nfd |-> <<"U+01B8">>],
      [c |-> "U+01B9", ord |-> 441, lower |-> <<"U+01B9">>, nfd |-> <<"U+01B9">>],
      [c |-> "U+01BA", ord |-> 442, lower |-> <<"U+01BA">>, nfd |-> <<"U+01BA">>],
      [c |-> "U+01BB", ord |-> 443, lower |-> <<"U+01BB">>, nfd |-> <<"U+01BB">>],
      [c |-> "U+01BC", ord |-> 444, lower |-> <<"U+01BD">>, nfd |-> <<"U+01BC">>],
      [c |-> "U+01BD", ord |-> 445, lower |-> <<"U+01BD">>, nfd |-> <<"U+01BD">>],
      [c |-> "U+01BE", ord |-> 446, lower |-> <<"U+01BE">>, nfd |-> <<"U+01BE">>],
      [c |-> "U+01BF", ord |-> 447, lower |-> <<"U+01BF">>, nfd |-> <<"U+01BF">>],
      [c |-> "U+01C0", ord |-> 448, lower |-> <<"U+01C0">>, nfd |-> <<"U+01C0">>],
      [c |-> "U+01C1", ord |-> 449, lower |-> <<"U+01C1">>, nfd |-> <<"U+01C1">>],
      [c |-> "U+01C2", ord |-> 450, lower |-> <<"U+01C2">>, nfd |-> <<"U+01C2">>],
      [c |-> "U+01C3", ord |-> 451, lower |-> <<"U+01C3">>, nfd |-> <<"U+01C3">>],
      [c |-> "U+01C4", ord |-> 452, lower |-> <<"U+01C6">>, nfd |-> <<"U+01C4">>],
      [c |-> "U+01C5", ord |-> 453, lower |-> <<"U+01C6">>, nfd |-> <<"U+01C5">>],
      [c |-> "U+01C6", ord |-> 454, lower |-> <<"U+01C6">>, nfd |-> <<"U+01C6">>],
      [c |-> "U+01C7", ord |-> 455, lower |-> <<"U+01C9">>, nfd |-> <<"U+01C7">>],
      [c |-> "U+01C8", ord |-> 456, lower |-> <<"U+01C9">>, nfd |-> <<"U+01C8">>],
      [c |-> "U+01C9", ord |-> 457, lower |-> <<"U+01C9">>, nfd |-> <<"U+01C9">>],
      [c |-> "U+01CA", ord |-> 458, lower |-> <<"U+01CC">>, nfd |-> <<"U+01CA">>],
      [c |-> "U+01CB", ord |-> 459, lower |-> <<"U+01CC">>, nfd |-> <<"U+01CB">>],
      [c |-> "U+01CC", ord |-> 460, lower |-> <<"U+01CC">>, nfd |-> <<"U+01CC">>],
      [c |-> "U+01CD", ord |-> 461, lower |-> <<"U+01CE">>, nfd |-> <<"A", "U+030C">>],
      [c |-> "U+01CE", ord |-> 462, lower |-> <<"U+01CE">>, nfd |-> <<"a", "U+030C">>],
      [c |-> "U+01CF", ord |-> 463, lower |-> <<"U+01D0">>, nfd |-> <<"I", "U+030C">>],
      [c |-> "U+01D0", ord |-> 464, lower |-> <<"U+01D0">>, nfd |-> <<"i", "U+030C">>],
      [c |-> "U+01D1", ord |-> 465, lower |-> <<"U+01D2">>, nfd |-> <<"O", "U+030C">>],
      [c |-> "U+01D2", ord |-> 466, lower |-> <<"U+01D2">>, nfd |-> <<"o", "U+030C">>],
      [c |-> "U+01D3", ord |-> 467, lower |-> <<"U+01D4">>, nfd |-> <<"U", "U+030C">>],
      [c |-> "U+01D4", ord |-> 468, lower |-> <<"U+01D4">>, nfd |-> <<"u", "U+030C">>],
      [c |-> "U+01D5", ord |-> 469, lower |-> <<"U+01D6">>, nfd |-> <<"U", "U+0308", "U+0304">>],
      [c |-> "U+01D6", ord |-> 470, lower |-> <<"U+01D6">>, nfd |-> <<"u", "U+0308", "U+0304">>],
      [c |-> "U+01D7", ord |-> 471, lower |-> <<"U+01D8">>, nfd |-> <<"U", "U+0308", "U+0301">>],
      [c |-> "U+01D8", ord |-> 472, lower |-> <<"U+01D8">>, nfd |-> <<"u", "U+0308", "U+0301">>],
      [c |-> "U+01D9", ord |-> 473, lower |-> <<"U+01DA">>, nfd |-> <<"U", "U+0308", "U+030C">>],
      [c |-> "U+01DA", ord |-> 474, lower |-> <<"U+01DA">>, nfd |-> <<"u", "U+0308", "U+030C">>],
      [c |-> "U+01DB", ord |-> 475, lower |-> <<"U+01DC">>, nfd |-> <<"U", "U+0308", "U+0300">>],
      [c |-> "U+01DC", ord |-> 476, lower |-> <<"U+01DC">>, nfd |-> <<"u", "U+0308", "U+0300">>],
      [c |-> "U+01DD", ord |-> 477, lower |-> <<"U+01DD">>, nfd |-> <<"U+01DD">>],
      [c |-> "U+01DE", ord |-> 478, lower |-> <<"U+01DF">>, nfd |-> <<"A", "U+0308", "U+0304">>],
      [c |-> "U+01DF", ord |-> 479, lower |-> <<"U+01DF">>, nfd |-> <<"a", "U+0308", "U+0304">>],
      [c |-> "U+01E0", ord |-> 480, lower |-> <<"U+01E1">>, nfd |-> <<"A", "U+0307", "U+0304">>],
      [c |-> "U+01E1", ord |-> 481, lower |-> <<"U+01E1">>, nfd |-> <<"a", "U+0307", "U+0304">>],
      [c |-> "U+01E2", ord |-> 482, lower |-> <<"U+01E3">>, nfd |-> <<"U+00C6", "U+0304">>],
      [c |-> "U+01E3", ord |-> 483, lower |-> <<"U+01E3">>, nfd |-> <<"U+00E6", "U+0304">>],
      [c |-> "U+01E4", ord |-> 484, lower |-> <<"U+01E5">>, nfd |-> <<"U+01E4">>],
      [c |-> "U+01E5", ord |-> 485, lower |-> <<"U+01E5">>, nfd |-> <<"U+01E5">>],
      [c |-> "U+01E6", ord |-> 486, lower |-> <<"U+01E7">>, nfd |-> <<"G", "U+030C">>],
      [c |-> "U+01E7", ord |-> 487, lower |-> <<"U+01E7">>, nfd |-> <<"g", "U+030C">>],
      [c |-> "U+01E8", ord |-> 488, lower |-> <<"U+01E9">>, nfd |-> <<"K", "U+030C">>],
      [c |-> "U+01E9", ord |-> 489, lower |-> <<"U+01E9">>, nfd |-> <<"k", "U+030C">>],
      [c |-> "U+01EA", ord |-> 490, lower |-> <<"U+01EB">>, nfd |-> <<"O", "U+0328">>],
      [c |-> "U+01EB", ord |-> 491, lower |-> <<"U+01EB">>, nfd |-> <<"o", "U+0328">>],
      [c |-> "U+01EC", ord |-> 492, lower |-> <<"U+01ED">>, nfd |-> <<"O", "U+0328", "U+0304">>],
      [c |-> "U+01ED", ord |-> 493, lower |-> <<"U+01ED">>, nfd |-> <<"o", "U+0328", "U+0304">>],
      [c |-> "U+01EE", ord |-> 494, lower |-> <<"U+01EF">>, nfd |-> <<"U+01B7", "U+030C">>],
      [c |-> "U+01EF", ord |-> 495, lower |-> <<"U+01EF">>, nfd |-> <<"U+0292", "U+030C">>],
      [c |-> "U+01F0", ord |-> 496, lower |-> <<"U+01F0">>, nfd |-> <<"j", "U+030C">>],
      [c |-> "U+01F1", ord |-> 497, lower |-> <<"U+01F3">>, nfd |-> <<"U+01F1">>],
      [c |-> "U+01F2", ord |-> 498, lower |-> <<"U+01F3">>, nfd |-> <<"U+01F2">>],
      [c |-> "U+01F3", ord |-> 499, lower |-> <<"U+01F3">>, nfd |-> <<"U+01F3">>],
      [c |-> "U+01F4", ord |-> 500, lower |-> <<"U+01F5">>, nfd |-> <<"G", "U+0301">>],
      [c |-> "U+01F5", ord |-> 501, lower |-> <<"U+01F5">>, nfd |-> <<"g", "U+0301">>],
      [c |-> "U+01F6", ord |-> 502, lower |-> <<"U+0195">>, nfd |-> <<"U+01F6">>],
      [c |-> "U+01F7", ord |-> 503, lower |-> <<"U+01BF">>, nfd |-> <<"U+01F7">>],
      [c |-> "U+01F8", ord |-> 504, lower |-> <<"U+01F9">>, nfd |-> <<"N", "U+0300">>],
      [c |-> "U+01F9", ord |-> 505, lower |-> <<"U+01F9">>, nfd |-> <<"n", "U+0300">>],
      [c |-> "U+01FA", ord |-> 506, lower |-> <<"U+01FB">>, nfd |-> <<"A", "U+030A", "U+0301">>],
      [c |-> "U+01FB", ord |-> 507, lower |-> <<"U+01FB">>, nfd |-> <<"a", "U+030A", "U+0301">>],
      [c |-> "U+01FC", ord |-> 508, lower |-> <<"U+01FD">>, nfd |-> <<"U+00C6", "U+0301">>],
      [c |-> "U+01FD", ord |-> 509, lower |-> <<"U+01FD">>, nfd |-> <<"U+00E6", "U+0301">>],
      [c |-> "U+01FE", ord |-> 510, lower |-> <<"U+01FF">>, nfd |-> <<"U+00D8", "U+0301">>],
      [c |-> "U+01FF", ord |-> 511, lower |-> <<"U+01FF">>, nfd |-> <<"U+00F8", "U+0301">>],
      [c |-> "U+0200", ord |-> 512, lower |-> <<"U+0201">>, nfd |-> <<"A", "U+030F">>],
      [c |-> "U+0201", ord |-> 513, lower |-> <<"U+0201">>, nfd |-> <<"a", "U+030F">>],
      [c |-> "U+0202", ord |-> 514, lower |-> <<"U+0203">>, nfd |-> <<"A", "U+0311">>],
      [c |-> "U+0203", ord |-> 515, lower |-> <<"U+0203">>, nfd |-> <<"a", "U+0311">>],
      [c |-> "U+0204", ord |-> 516, lower |-> <<"U+0205">>, nfd |-> <<"E", "U+030F">>],
      [c |-> "U+0205", ord |-> 517, lower |-> <<"U+0205">>, nfd |-> <<"e", "U+030F">>],
      [c |-> "U+0206", ord |-> 518, lower |-> <<"U+0207">>, nfd |-> <<"E", "U+0311">>],
      [c |-> "U+0207", ord |-> 519, lower |-> <<"U+0207">>, nfd |-> <<"e", "U+0311">>],
      [c |-> "U+0208", ord |-> 520, lower |-> <<"U+0209">>, nfd |-> <<"I", "U+030F">>],
      [c |-> "U+0209", ord |-> 521, lower |-> <<"U+0209">>, nfd |-> <<"i", "U+030F">>],
      [c |-> "U+020A", ord |-> 522, lower |-> <<"U+020B">>, nfd |-> <<"I", "U+0311">>],
      [c |-> "U+020B", ord |-> 523, lower |-> <<"U+020B">>, nfd |-> <<"i", "U+0311">>],
      [c |-> "U+020C", ord |-> 524, lower |-> <<"U+020D">>, nfd |-> <<"O", "U+030F">>],
      [c |-> "U+020D", ord |-> 525, lower |-> <<"U+020D">>, nfd |-> <<"o", "U+030F">>],
      [c |-> "U+020E", ord |-> 526, lower |-> <<"U+020F">>, nfd |-> <<"O", "U+0311">>],
      [c |-> "U+020F", ord |-> 527, lower |-> <<"U+020F">>, nfd |-> <<"o", "U+0311">>],
      [c |-> "U+0210", ord |-> 528, lower |-> <<"U+0211">>, nfd |-> <<"R", "U+030F">>],
      [c |-> "U+0211", ord |-> 529, lower |-> <<"U+0211">>, nfd |-> <<"r", "U+030F">>],
      [c |-> "U+0212", ord |-> 530, lower |-> <<"U+0213">>, nfd |-> <<"R", "U+0311">>],
      [c |-> "U+0213", ord |-> 531, lower |-> <<"U+0213">>, nfd |-> <<"r", "U+0311">>],
      [c |-> "U+0214", ord |-> 532, lower |-> <<"U+0215">>, nfd |-> <<"U", "U+030F">>],
      [c |-> "U+0215", ord |-> 533, lower |-> <<"U+0215">>, nfd |-> <<"u", "U+030F">>],
      [c |-> "U+0216", ord |-> 534, lower |-> <<"U+0217">>, nfd |-> <<"U", "U+0311">>],
      [c |-> "U+0217", ord |-> 535, lower |-> <<"U+0217">>, nfd |-> <<"u", "U+0311">>],
      [c |-> "U+0218", ord |-> 536, lower |-> <<"U+0219">>, nfd |-> <<"S", "U+0326">>],
      [c |-> "U+0219", ord |-> 537, lower |-> <<"U+0219">>, nfd |-> <<"s", "U+0326">>],
      [c |-> "U+021A", ord |-> 538, lower |-> <<"U+021B">>, nfd |-> <<"T", "U+0326">>],
      [c |-> "U+021B", ord |-> 539, lower |-> <<"U+021B">>, nfd |-> <<"t", "U+0326">>],
      [c |-> "U+021C", ord |-> 540, lower |-> <<"U+021D">>, nfd |-> <<"U+021C">>],
      [c |-> "U+021D", ord |-> 541, lower |-> <<"U+021D">>, nfd |-> <<"U+021D">>],
      [c |-> "U+021E", ord |-> 542, lower |-> <<"U+021F">>, nfd |-> <<"H", "U+030C">>],
      [c |-> "U+021F", ord |-> 543, lower |-> <<"U+021F">>, nfd |-> <<"h", "U+030C">>],
      [c |-> "U+0220", ord |-> 544, lower |-> <<"U+019E">>, nfd |-> <<"U+0220">>],
      [c |-> "U+0221", ord |-> 545, lower |-> <<"U+0221">>, nfd |-> <<"U+0221">>],
      [c |-> "U+0222", ord |-> 546, lower |-> <<"U+0223">>, nfd |-> <<"U+0222">>],
      [c |-> "U+0223", ord |-> 547, lower |-> <<"U+0223">>, nfd |-> <<"U+0223">>],
      [c |-> "U+0224", ord |-> 548, lower |-> <<"U+0225">>, nfd |-> <<"U+0224">>],
      [c |-> "U+0225", ord |-> 549, lower |-> <<"U+0225">>, nfd |-> <<"U+0225">>],
      [c |-> "U+0226", ord |-> 550, lower |-> <<"U+0227">>, nfd |-> <<"A", "U+0307">>],
      [c |-> "U+0227", ord |-> 551, lower |-> <<"U+0227">>, nfd |-> <<"a", "U+0307">>],
      [c |-> "U+0228", ord |-> 552, lower |-> <<"U+0229">>, nfd |-> <<"E", "U+0327">>],
      [c |-> "U+0229", ord |-> 553, lower |-> <<"U+0229">>, nfd |-> <<"e", "U+0327">>],
      [c |-> "U+022A", ord |-> 554, lower |-> <<"U+022B">>, nfd |-> <<"O", "U+0308", "U+0304">>],
      [c |-> "U+022B", ord |-> 555, lower |-> <<"U+022B">>, nfd |-> <<"o", "U+0308", "U+0304">>],
      [c |-> "U+022C", ord |-> 556, lower |-> <<"U+022D">>, nfd |-> <<"O", "U+0303", "U+0304">>],
      [c |-> "U+022D", ord |-> 557, lower |-> <<"U+022D">>, nfd |-> <<"o", "U+0303", "U+0304">>],
      [c |-> "U+022E", ord |-> 558, lower |-> <<"U+022F">>, nfd |-> <<"O", "U+0307">>],
      [c |-> "U+022F", ord |-> 559, lower |-> <<"U+022F">>, nfd |-> <<"o", "U+0307">>],
      [c |-> "U+0230", ord |-> 560, lower |-> <<"U+0231">>, nfd |-> <<"O", "U+0307", "U+0304">>],
      [c |-> "U+0231", ord |-> 561, lower |-> <<"U+0231">>, nfd |-> <<"o", "U+0307", "U+0304">>],
      [c |-> "U+0232", ord |-> 562, lower |-> <<"U+0233">>, nfd |-> <<"Y", "U+0304">>],
      [c |-> "U+0233", ord |-> 563, lower |-> <<"U+0233">>, nfd |-> <<"y", "U+0304">>],
      [c |-> "U+0234", ord |-> 564, lower |-> <<"U+0234">>, nfd |-> <<"U+0234">>],
      [c |-> "U+0235", ord |-> 565, lower |-> <<"U+0235">>, nfd |-> <<"U+0235">>],
      [c |-> "U+0236", ord |-> 566, lower |-> <<"U+0236">>, nfd |-> <<"U+0236">>],
      [c |-> "U+0237", ord |-> 567, lower |-> <<"U+0237">>, nfd |-> <<"U+0237">>],
      [c |-> "U+0238", ord |-> 568, lower |-> <<"U+0238">>, nfd |-> <<"U+0238">>],
      [c |-> "U+0239", ord |-> 569, lower |-> <<"U+0239">>, nfd |-> <<"U+0239">>],
      [c |-> "U+023A", ord |-> 570, lower |-> <<"U+2C65">>, nfd |-> <<"U+023A">>],
      [c |-> "U+023B", ord |-> 571, lower |-> <<"U+023C">>, nfd |-> <<"U+023B">>],
      [c |-> "U+023C", ord |-> 572, lower |-> <<"U+023C">>, nfd |-> <<"U+023C">>],
      [c |-> "U+023D", ord |-> 573, lower |-> <<"U+019A">>, nfd |-> <<"U+023D">>],
      [c |-> "U+023E", ord |-> 574, lower |-> <<"U+2C66">>, nfd |-> <<"U+023E">>],
      [c |-> "U+023F", ord |-> 575, lower |-> <<"U+023F">>, nfd |-> <<"U+023F">>],
      [c |-> "U+0240", ord |-> 576, lower |-> <<"U+0240">>, nfd |-> <<"U+0240">>],
      [c |-> "U+0241", ord |-> 577, lower |-> <<"U+0242">>, nfd |-> <<"U+0241">>],
      [c |-> "U+0242", ord |-> 578, lower |-> <<"U+0242">>, nfd |-> <<"U+0242">>],
      [c |-> "U+0243", ord |-> 579, lower |-> <<"U+0180">>, nfd |-> <<"U+0243">>],
      [c |-> "U+0244", ord |-> 580, lower |-> <<"U+0289">>, nfd |-> <<"U+0244">>],
      [c |-> "U+0245", ord |-> 581, lower |-> <<"U+028C">>, nfd |-> <<"U+0245">>],
      [c |-> "U+0246", ord |-> 582, lower |-> <<"U+0247">>, nfd |-> <<"U+0246">>],
      [c |-> "U+0247", ord |-> 583, lower |-> <<"U+0247">>, nfd |-> <<"U+0247">>],
      [c |-> "U+0248", ord |-> 584, lower |-> <<"U+0249">>, nfd |-> <<"U+0248">>],
      [c |-> "U+0249", ord |-> 585, lower |-> <<"U+0249">>, nfd |-> <<"U+0249">>],
      [c |-> "U+024A", ord |-> 586, lower |-> <<"U+024B">>, nfd |-> <<"U+024A">>],
      [c |-> "U+024B", ord |-> 587, lower |-> <<"U+024B">>, nfd |-> <<"U+024B">>],
      [c |-> "U+024C", ord |-> 588, lower |-> <<"U+024D">>, nfd |-> <<"U+024C">>],
      [c |-> "U+024D", ord |-> 589, lower |-> <<"U+024D">>, nfd |-> <<"U+024D">>],
      [c |-> "U+024E", ord |-> 590, lower |-> <<"U+024F">>, nfd |-> <<"U+024E">>],
      [c |-> "U+024F", ord |-> 591, lower |-> <<"U+024F">>, nfd |-> <<"U+024F">>],
      [c |-> "U+0253", ord |-> 595, lower |-> <<"U+0253">>, nfd |-> <<"U+0253">>],
      [c |-> "U+0254", ord |-> 596, lower |-> <<"U+0254">>, nfd |-> <<"U+0254">>],
      [c |-> "U+0256", ord |-> 598, lower |-> <<"U+0256">>, nfd |-> <<"U+0256">>],
      [c |-> "U+0257", ord |-> 599, lower |-> <<"U+0257">>, nfd |-> <<"U+0257">>],
      [c |-> "U+0259", ord |-> 601, lower |-> <<"U+0259">>, nfd |-> <<"U+0259">>],
      [c |-> "U+025B", ord |-> 603, lower |-> <<"U+025B">>, nfd |-> <<"U+025B">>],
      [c |-> "U+0260", ord |-> 608, lower |-> <<"U+0260">>, nfd |-> <<"U+0260">>],
      [c |-> "U+0263", ord |-> 611, lower |-> <<"U+0263">>, nfd |-> <<"U+0263">>],
      [c |-> "U+0268", ord |-> 616, lower |-> <<"U+0268">>, nfd |-> <<"U+0268">>],
      [c |-> "U+0269", ord |-> 617, lower |-> <<"U+0269">>, nfd |-> <<"U+0269">>],
      [c |-> "U+026F", ord |-> 623, lower |-> <<"U+026F">>, nfd |-> <<"U+026F">>],
      [c |-> "U+0272", ord |-> 626, lower |-> <<"U+0272">>, nfd |-> <<"U+0272">>],
      [c |-> "U+0275", ord |-> 629, lower |-> <<"U+0275">>, nfd |-> <<"U+0275">>],
      [c |-> "U+0280", ord |-> 640, lower |-> <<"U+0280">>, nfd |-> <<"U+0280">>],
      [c |-> "U+0283", ord |-> 643, lower |-> <<"U+0283">>, nfd |-> <<"U+0283">>],
      [c |-> "U+0288", ord |-> 648, lower |-> <<"U+0288">>, nfd |-> <<"U+0288">>],
      [c |-> "U+0289", ord |-> 649, lower |-> <<"U+0289">>, nfd |-> <<"U+0289">>],
      [c |-> "U+028A", ord |-> 650, lower |-> <<"U+028A">>, nfd |-> <<"U+028A">>],
      [c |-> "U+028B", ord |-> 651, lower |-> <<"U+028B">>, nfd |-> <<"U+028B">>],
      [c |-> "U+028C", ord |-> 652, lower |-> <<"U+028C">>, nfd |-> <<"U+028C">>],
      [c |-> "U+0292", ord |-> 658, lower |-> <<"U+0292">>, nfd |-> <<"U+0292">>],
      [c |-> "U+0300", ord |-> 768, lower |-> <<"U+0300">>, nfd |-> <<"U+0300">>],
      [c |-> "U+0301", ord |-> 769, lower |-> <<"U+0301">>, nfd |-> <<"U+0301">>],
      [c |-> "U+0302", ord |-> 770, lower |-> <<"U+0302">>, nfd |-> <<"U+0302">>],
      [c |-> "U+0303", ord |-> 771, lower |-> <<"U+0303">>, nfd |-> <<"U+0303">>],
      [c |-> "U+0304", ord |-> 772, lower |-> <<"U+0304">>, nfd |-> <<"U+0304">>],
      [c |-> "U+0305", ord |-> 773, lower |-> <<"U+0305">>, nfd |-> <<"U+0305">>],
      [c |-> "U+0306", ord |-> 774, lower |-> <<"U+0306">>, nfd |-> <<"U+0306">>],
      [c |-> "U+0307", ord |-> 775, lower |-> <<"U+0307">>, nfd |-> <<"U+0307">>],
      [c |-> "U+0308", ord |-> 776, lower |-> <<"U+0308">>, nfd |-> <<"U+0308">>],
      [c |-> "U+0309", ord |-> 777, lower |-> <<"U+0309">>, nfd |-> <<"U+0309">>],
      [c |-> "U+030A", ord |-> 778, lower |-> <<"U+030A">>, nfd |-> <<"U+030A">>],
      [c |-> "U+030B", ord |-> 779, lower |-> <<"U+030B">>, nfd |-> <<"U+030B">>],
      [c |-> "U+030C", ord |-> 780, lower |-> <<"U+030C">>, nfd |-> <<"U+030C">>],
      [c |-> "U+030D", ord |-> 781, lower |-> <<"U+030D">>, nfd |-> <<"U+030D">>],
      [c |-> "U+030E", ord |-> 782, lower |-> <<"U+030E">>, nfd |-> <<"U+030E">>],
      [c |-> "U+030F", ord |-> 783, lower |-> <<"U+030F">>, nfd |-> <<"U+030F">>],
      [c |-> "U+0310", ord |-> 784, lower |-> <<"U+0310">>, nfd |-> <<"U+0310">>],
      [c |-> "U+0311", ord |-> 785, lower |-> <<"U+0311">>, nfd |-> <<"U+0311">>],
      [c |-> "U+0312", ord |-> 786, lower |-> <<"U+0312">>, nfd |-> <<"U+0312">>],
      [c |-> "U+0313", ord |-> 787, lower |-> <<"U+0313">>, nfd |-> <<"U+0313">>],
      [c |-> "U+0314", ord |-> 788, lower |-> <<"U+0314">>, nfd |-> <<"U+0314">>],
      [c |-> "U+0315", ord |-> 789, lower |-> <<"U+0315">>, nfd |-> <<"U+0315">>],
      [c |-> "U+0316", ord |-> 790, lower |-> <<"U+0316">>, nfd |-> <<"U+0316">>],
      [c |-> "U+0317", ord |-> 791, lower |-> <<"U+0317">>, nfd |-> <<"U+0317">>],
      [c |-> "U+0318", ord |-> 792, lower |-> <<"U+0318">>, nfd |-> <<"U+0318">>],
      [c |-> "U+0319", ord |-> 793, lower |-> <<"U+0319">>, nfd |-> <<"U+0319">>],
      [c |-> "U+031A", ord |-> 794, lower |-> <<"U+031A">>, nfd |-> <<"U+031A">>],
      [c |-> "U+031B", ord |-> 795, lower |-> <<"U+031B">>, nfd |-> <<"U+031B">>],
      [c |-> "U+031C", ord |-> 796, lower |-> <<"U+031C">>, nfd |-> <<"U+031C">>],
      [c |-> "U+031D", ord |-> 797, lower |-> <<"U+031D">>, nfd |-> <<"U+031D">>],
      [c |-> "U+031E", ord |-> 798, lower |-> <<"U+031E">>, nfd |-> <<"U+031E">>],
      [c |-> "U+031F", ord |-> 799, lower |-> <<"U+031F">>, nfd |-> <<"U+031F">>],
      [c |-> "U+0320", ord |-> 800, lower |-> <<"U+0320">>, nfd |-> <<"U+0320">>],
      [c |-> "U+0321", ord |-> 801, lower |-> <<"U+0321">>, nfd |-> <<"U+0321">>],
      [c |-> "U+0322", ord |-> 802, lower |-> <<"U+0322">>, nfd |-> <<"U+0322">>],
      [c |-> "U+0323", ord |-> 803, lower |-> <<"U+0323">>, nfd |-> <<"U+0323">>],
      [c |-> "U+0324", ord |-> 804, lower |-> <<"U+0324">>, nfd |-> <<"U+0324">>],
      [c |-> "U+0325", ord |-> 805, lower |-> <<"U+0325">>, nfd |-> <<"U+0325">>],
      [c |-> "U+0326", ord |-> 806, lower |-> <<"U+0326">>, nfd |-> <<"U+0326">>],
      [c |-> "U+0327", ord |-> 807, lower |-> <<"U+0327">>, nfd |-> <<"U+0327">>],
      [c |-> "U+0328", ord |-> 808, lower |-> <<"U+0328">>, nfd |-> <<"U+0328">>],
      [c |-> "U+0329", ord |-> 809, lower |-> <<"U+0329">>, nfd |-> <<"U+0329">>],
      [c |-> "U+032A", ord |-> 810, lower |-> <<"U+032A">>, nfd |-> <<"U+032A">>],
      [c |-> "U+032B", ord |-> 811, lower |-> <<"U+032B">>, nfd |-> <<"U+032B">>],
      [c |-> "U+032C", ord |-> 812, lower |-> <<"U+032C">>, nfd |-> <<"U+032C">>],
      [c |-> "U+032D", ord |-> 813, lower |-> <<"U+032D">>, nfd |-> <<"U+032D">>],
      [c |-> "U+032E", ord |-> 814, lower |-> <<"U+032E">>, nfd |-> <<"U+032E">>],
      [c |-> "U+032F", ord |-> 815, lower |-> <<"U+032F">>, nfd |-> <<"U+032F">>],
      [c |-> "U+0330", ord |-> 816, lower |-> <<"U+0330">>, nfd |-> <<"U+0330">>],
      [c |-> "U+0331", ord |-> 817, lower |-> <<"U+0331">>, nfd |-> <<"U+0331">>],
      [c |-> "U+0332", ord |-> 818, lower |-> <<"U+0332">>, nfd |-> <<"U+0332">>],
      [c |-> "U+0333", ord |-> 819, lower |-> <<"U+0333">>, nfd |-> <<"U+0333">>],
      [c |-> "U+0334", ord |-> 820, lower |-> <<"U+0334">>, nfd |-> <<"U+0334">>],
      [c |-> "U+0335", ord |-> 821, lower |-> <<"U+0335">>, nfd |-> <<"U+0335">>],
      [c |-> "U+0336", ord |-> 822, lower |-> <<"U+0336">>, nfd |-> <<"U+0336">>],
      [c |-> "U+0337", ord |-> 823, lower |-> <<"U+0337">>, nfd |-> <<"U+0337">>],
      [c |-> "U+0338", ord |-> 824, lower |-> <<"U+0338">>, nfd |-> <<"U+0338">>],
      [c |-> "U+0339", ord |-> 825, lower |-> <<"U+0339">>, nfd |-> <<"U+0339">>],
      [c |-> "U+033A", ord |-> 826, lower |-> <<"U+033A">>, nfd |-> <<"U+033A">>],
      [c |-> "U+033B", ord |-> 827, lower |-> <<"U+033B">>, nfd |-> <<"U+033B">>],
      [c |-> "U+033C", ord |-> 828, lower |-> <<"U+033C">>, nfd |-> <<"U+033C">>],
      [c |-> "U+033D", ord |-> 829, lower |-> <<"U+033D">>, nfd |-> <<"U+033D">>],
      [c |-> "U+033E", ord |-> 830, lower |-> <<"U+033E">>, nfd |-> <<"U+033E">>],
      [c |-> "U+033F", ord |-> 831, lower |-> <<"U+033F">>, nfd |-> <<"U+033F">>],
      [c |-> "U+0340", ord |-> 832, lower |-> <<"U+0340">>, nfd |-> <<"U+0300">>],
      [c |-> "U+0341", ord |-> 833, lower |-> <<"U+0341">>, nfd |-> <<"U+0301">>],
      [c |-> "U+0342", ord |-> 834, lower |-> <<"U+0342">>, nfd |-> <<"U+0342">>],
      [c |-> "U+0343", ord |-> 835, lower |-> <<"U+0343">>, nfd |-> <<"U+0313">>],
      [c |-> "U+0344", ord |-> 836, lower |-> <<"U+0344">>, nfd |-> <<"U+0308", "U+0301">>],
      [c |-> "U+0345", ord |-> 837, lower |-> <<"U+0345">>, nfd |-> <<"U+0345">>],
      [c |-> "U+0346", ord |-> 838, lower |-> <<"U+0346">>, nfd |-> <<"U+0346">>],
      [c |-> "U+0347", ord |-> 839, lower |-> <<"U+0347">>, nfd |-> <<"U+0347">>],
      [c |-> "U+0348", ord |-> 840, lower |-> <<"U+0348">>, nfd |-> <<"U+0348">>],
      [c |-> "U+0349", ord |-> 841, lower |-> <<"U+0349">>, nfd |-> <<"U+0349">>],
      [c |-> "U+034A", ord |-> 842, lower |-> <<"U+034A">>, nfd |-> <<"U+034A">>],
      [c |-> "U+034B", ord |-> 843, lower |-> <<"U+034B">>, nfd |-> <<"U+034B">>],
      [c |-> "U+034C", ord |-> 844, lower |-> <<"U+034C">>, nfd |-> <<"U+034C">>],
      [c |-> "U+034D", ord |-> 845, lower |-> <<"U+034D">>, nfd |-> <<"U+034D">>],
      [c |-> "U+034E", ord |-> 846, lower |-> <<"U+034E">>, nfd |-> <<"U+034E">>],
      [c |-> "U+034F", ord |-> 847, lower |-> <<"U+034F">>, nfd |-> <<"U+034F">>],
      [c |-> "U+0350", ord |-> 848, lower |-> <<"U+0350">>, nfd |-> <<"U+0350">>],
      [c |-> "U+0351", ord |-> 849, lower |-> <<"U+0351">>, nfd |-> <<"U+0351">>],
      [c |-> "U+0352", ord |-> 850, lower |-> <<"U+0352">>, nfd |-> <<"U+0352">>],
      [c |-> "U+0353", ord |-> 851, lower |-> <<"U+0353">>, nfd |-> <<"U+0353">>],
      [c |-> "U+0354", ord |-> 852, lower |-> <<"U+0354">>, nfd |-> <<"U+0354">>],
      [c |-> "U+0355", ord |-> 853, lower |-> <<"U+0355">>, nfd |-> <<"U+0355">>],
      [c |-> "U+0356", ord |-> 854, lower |-> <<"U+0356">>, nfd |-> <<"U+0356">>],
      [c |-> "U+0357", ord |-> 855, lower |-> <<"U+0357">>, nfd |-> <<"U+0357">>],
      [c |-> "U+0358", ord |-> 856, lower |-> <<"U+0358">>, nfd |-> <<"U+0358">>],
      [c |-> "U+0359", ord |-> 857, lower |-> <<"U+0359">>, nfd |-> <<"U+0359">>],
      [c |-> "U+035A", ord |-> 858, lower |-> <<"U+035A">>, nfd |-> <<"U+035A">>],
      [c |-> "U+035B", ord |-> 859, lower |-> <<"U+035B">>, nfd |-> <<"U+035B">>],
      [c |-> "U+035C", ord |-> 860, lower |-> <<"U+035C">>, nfd |-> <<"U+035C">>],
      [c |-> "U+035D", ord |-> 861, lower |-> <<"U+035D">>, nfd |-> <<"U+035D">>],
      [c |-> "U+035E", ord |-> 862, lower |-> <<"U+035E">>, nfd |-> <<"U+035E">>],
      [c |-> "U+035F", ord |-> 863, lower |-> <<"U+035F">>, nfd |-> <<"U+035F">>],
      [c |-> "U+0360", ord |-> 864, lower |-> <<"U+0360">>, nfd |-> <<"U+0360">>],
      [c |-> "U+0361", ord |-> 865, lower |-> <<"U+0361">>, nfd |-> <<"U+0361">>],
      [c |-> "U+0362", ord |-> 866, lower |-> <<"U+0362">>, nfd |-> <<"U+0362">>],
      [c |-> "U+0363", ord |-> 867, lower |-> <<"U+0363">>, nfd |-> <<"U+0363">>],
      [c |-> "U+0364", ord |-> 868, lower |-> <<"U+0364">>, nfd |-> <<"U+0364">>],
      [c |-> "U+0365", ord |-> 869, lower |-> <<"U+0365">>, nfd |-> <<"U+0365">>],
      [c |-> "U+0366", ord |-> 870, lower |-> <<"U+0366">>, nfd |-> <<"U+0366">>],
      [c |-> "U+0367", ord |-> 871, lower |-> <<"U+0367">>, nfd |-> <<"U+0367">>],
      [c |-> "U+0368", ord |-> 872, lower |-> <<"U+0368">>, nfd |-> <<"U+0368">>],
      [c |-> "U+0369", ord |-> 873, lower |-> <<"U+0369">>, nfd |-> <<"U+0369">>],
      [c |-> "U+036A", ord |-> 874, lower |-> <<"U+036A">>, nfd |-> <<"U+036A">>],
      [c |-> "U+036B", ord |-> 875, lower |-> <<"U+036B">>, nfd |-> <<"U+036B">>],
      [c |-> "U+036C", ord |-> 876, lower |-> <<"U+036C">>, nfd |-> <<"U+036C">>],
      [c |-> "U+036D", ord |-> 877, lower |-> <<"U+036D">>, nfd |-> <<"U+036D">>],
      [c |-> "U+036E", ord |-> 878, lower |-> <<"U+036E">>, nfd |-> <<"U+036E">>],
      [c |-> "U+036F", ord |-> 879, lower |-> <<"U+036F">>, nfd |-> <<"U+036F">>],
      [c |-> "U+1E00", ord |-> 7680, lower |-> <<"U+1E01">>, nfd |-> <<"A", "U+0325">>],
      [c |-> "U+1E01", ord |-> 7681, lower |-> <<"U+1E01">>, nfd |-> <<"a", "U+0325">>],
      [c |-> "U+1E02", ord |-> 7682, lower |-> <<"U+1E03">>, nfd |-> <<"B", "U+0307">>],
      [c |-> "U+1E03", ord |-> 7683, lower |-> <<"U+1E03">>, nfd |-> <<"b", "U+0307">>],
      [c |-> "U+1E04", ord |-> 7684, lower |-> <<"U+1E05">>, nfd |-> <<"B", "U+0323">>],
      [c |-> "U+1E05", ord |-> 7685, lower |-> <<"U+1E05">>, nfd |-> <<"b", "U+0323">>],
      [c |-> "U+1E06", ord |-> 7686, lower |-> <<"U+1E07">>, nfd |-> <<"B", "U+0331">>],
      [c |-> "U+1E07", ord |-> 7687, lower |-> <<"U+1E07">>, nfd |-> <<"b", "U+0331">>],
      [c |-> "U+1E08", ord |-> 7688, lower |-> <<"U+1E09">>, nfd |-> <<"C", "U+0327", "U+0301">>],
      [c |-> "U+1E09", ord |-> 7689, lower |-> <<"U+1E09">>, nfd |-> <<"c", "U+0327", "U+0301">>],
      [c |-> "U+1E0A", ord |-> 7690, lower |-> <<"U+1E0B">>, nfd |-> <<"D", "U+0307">>],
      [c |-> "U+1E0B", ord |-> 7691, lower |-> <<"U+1E0B">>, nfd |-> <<"d", "U+0307">>],
      [c |-> "U+1E0C", ord |-> 7692, lower |-> <<"U+1E0D">>, nfd |-> <<"D", "U+0323">>],
      [c |-> "U+1E0D", ord |-> 7693, lower |-> <<"U+1E0D">>, nfd |-> <<"d", "U+0323">>],
      [c |-> "U+1E0E", ord |-> 7694, lower |-> <<"U+1E0F">>, nfd |-> <<"D", "U+0331">>],
      [c |-> "U+1E0F", ord |-> 7695, lower |-> <<"U+1E0F">>, nfd |-> <<"d", "U+0331">>],
      [c |-> "U+1E10", ord |-> 7696, lower |-> <<"U+1E11">>, nfd |-> <<"D", "U+0327">>],
      [c |-> "U+1E11", ord |-> 7697, lower |-> <<"U+1E11">>, nfd |-> <<"d", "U+0327">>],
      [c |-> "U+1E12", ord |-> 7698, lower |-> <<"U+1E13">>, nfd |-> <<"D", "U+032D">>],
      [c |-> "U+1E13", ord |-> 7699, lower |-> <<"U+1E13">>, nfd |-> <<"d", "U+032D">>],
      [c |-> "U+1E14", ord |-> 7700, lower |-> <<"U+1E15">>, nfd |-> <<"E", "U+0304", "U+0300">>],
      [c |-> "U+1E15", ord |-> 7701, lower |-> <<"U+1E15">>, nfd |-> <<"e", "U+0304", "U+0300">>],
      [c |-> "U+1E16", ord |-> 7702, lower |-> <<"U+1E17">>, nfd |-> <<"E", "U+0304", "U+0301">>],
      [c |-> "U+1E17", ord |-> 7703, lower |-> <<"U+1E17">>, nfd |-> <<"e", "U+0304", "U+0301">>],
      [c |-> "U+1E18", ord |-> 7704, lower |-> <<"U+1E19">>, nfd |-> <<"E", "U+032D">>],
      [c |-> "U+1E19", ord |-> 7705, lower |-> <<"U+1E19">>, nfd |-> <<"e", "U+032D">>],
      [c |-> "U+1E1A", ord |-> 7706, lower |-> <<"U+1E1B">>, nfd |-> <<"E", "U+0330">>],
      [c |-> "U+1E1B", ord |-> 7707, lower |-> <<"U+1E1B">>, nfd |-> <<"e", "U+0330">>],
      [c |-> "U+1E1C", ord |-> 7708, lower |-> <<"U+1E1D">>, nfd |-> <<"E", "U+0327", "U+0306">>],
      [c |-> "U+1E1D", ord |-> 7709, lower |-> <<"U+1E1D">>, nfd |-> <<"e", "U+0327", "U+0306">>],
      [c |-> "U+1E1E", ord |-> 7710, lower |-> <<"U+1E1F">>, nfd |-> <<"F", "U+0307">>],
      [c |-> "U+1E1F", ord |-> 7711, lower |-> <<"U+1E1F">>, nfd |-> <<"f", "U+0307">>],
      [c |-> "U+1E20", ord |-> 7712, lower |-> <<"U+1E21">>, nfd |-> <<"G", "U+0304">>],
      [c |-> "U+1E21", ord |-> 7713, lower |-> <<"U+1E21">>, nfd |-> <<"g", "U+0304">>],
      [c |-> "U+1E22", ord |-> 7714, lower |-> <<"U+1E23">>, nfd |-> <<"H", "U+0307">>],
      [c |-> "U+1E23", ord |-> 7715, lower |-> <<"U+1E23">>, nfd |-> <<"h", "U+0307">>],
      [c |-> "U+1E24", ord |-> 7716, lower |-> <<"U+1E25">>, nfd |-> <<"H", "U+0323">>],
      [c |-> "U+1E25", ord |-> 7717, lower |-> <<"U+1E25">>, nfd |-> <<"h", "U+0323">>],
      [c |-> "U+1E26", ord |-> 7718, lower |-> <<"U+1E27">>, nfd |-> <<"H", "U+0308">>],
      [c |-> "U+1E27", ord |-> 7719, lower |-> <<"U+1E27">>, nfd |-> <<"h", "U+0308">>],
      [c |-> "U+1E28", ord |-> 7720, lower |-> <<"U+1E29">>, nfd |-> <<"H", "U+0327">>],
      [c |-> "U+1E29", ord |-> 7721, lower |-> <<"U+1E29">>, nfd |-> <<"h", "U+0327">>],
      [c |-> "U+1E2A", ord |-> 7722, lower |-> <<"U+1E2B">>, nfd |-> <<"H", "U+032E">>],
      [c |-> "U+1E2B", ord |-> 7723, lower |-> <<"U+1E2B">>, nfd |-> <<"h", "U+032E">>],
      [c |-> "U+1E2C", ord |-> 7724, lower |-> <<"U+1E2D">>, nfd |-> <<"I", "U+0330">>],
      [c |-> "U+1E2D", ord |-> 7725, lower |-> <<"U+1E2D">>, nfd |-> <<"i", "U+0330">>],
      [c |-> "U+1E2E", ord |-> 7726, lower |-> <<"U+1E2F">>, nfd |-> <<"I", "U+0308", "U+0301">>],
      [c |-> "U+1E2F", ord |-> 7727, lower |-> <<"U+1E2F">>, nfd |-> <<"i", "U+0308", "U+0301">>],
      [c |-> "U+1E30", ord |-> 7728, lower |-> <<"U+1E31">>, nfd |-> <<"K", "U+0301">>],
      [c |-> "U+1E31", ord |-> 7729, lower |-> <<"U+1E31">>, nfd |-> <<"k", "U+0301">>],
      [c |-> "U+1E32", ord |-> 7730, lower |-> <<"U+1E33">>, nfd |-> <<"K", "U+0323">>],
      [c |-> "U+1E33", ord |-> 7731, lower |-> <<"U+1E33">>, nfd |-> <<"k", "U+0323">>],
      [c |-> "U+1E34", ord |-> 7732, lower |-> <<"U+1E35">>, nfd |-> <<"K", "U+0331">>],
      [c |-> "U+1E35", ord |-> 7733, lower |-> <<"U+1E35">>, nfd |-> <<"k", "U+0331">>],
      [c |-> "U+1E36", ord |-> 7734, lower |-> <<"U+1E37">>, nfd |-> <<"L", "U+0323">>],
      [c |-> "U+1E37", ord |-> 7735, lower |-> <<"U+1E37">>, nfd |-> <<"l", "U+0323">>],
      [c |-> "U+1E38", ord |-> 7736, lower |-> <<"U+1E39">>, nfd |-> <<"L", "U+0323", "U+0304">>],
      [c |-> "U+1E39", ord |-> 7737, lower |-> <<"U+1E39">>, nfd |-> <<"l", "U+0323", "U+0304">>],
      [c |-> "U+1E3A", ord |-> 7738, lower |-> <<"U+1E3B">>, nfd |-> <<"L", "U+0331">>],
      [c |-> "U+1E3B", ord |-> 7739, lower |-> <<"U+1E3B">>, nfd |-> <<"l", "U+0331">>],
      [c |-> "U+1E3C", ord |-> 7740, lower |-> <<"U+1E3D">>, nfd |-> <<"L", "U+032D">>],
      [c |-> "U+1E3D", ord |-> 7741, lower |-> <<"U+1E3D">>, nfd |-> <<"l", "U+032D">>],
      [c |-> "U+1E3E", ord |-> 7742, lower |-> <<"U+1E3F">>, nfd |-> <<"M", "U+0301">>],
      [c |-> "U+1E3F", ord |-> 7743, lower |-> <<"U+1E3F">>, nfd |-> <<"m", "U+0301">>],
      [c |-> "U+1E40", ord |-> 7744, lower |-> <<"U+1E41">>, nfd |-> <<"M", "U+0307">>],
      [c |-> "U+1E41", ord |-> 7745, lower |-> <<"U+1E41">>, nfd |-> <<"m", "U+0307">>],
      [c |-> "U+1E42", ord |-> 7746, lower |-> <<"U+1E43">>, nfd |-> <<"M", "U+0323">>],
      [c |-> "U+1E43", ord |-> 7747, lower |-> <<"U+1E43">>, nfd |-> <<"m", "U+0323">>],
      [c |-> "U+1E44", ord |-> 7748, lower |-> <<"U+1E45">>, nfd |-> <<"N", "U+0307">>],
      [c |-> "U+1E45", ord |-> 7749, lower |-> <<"U+1E45">>, nfd |-> <<"n", "U+0307">>],
      [c |-> "U+1E46", ord |-> 7750, lower |-> <<"U+1E47">>, nfd |-> <<"N", "U+0323">>],
      [c |-> "U+1E47", ord |-> 7751, lower |-> <<"U+1E47">>, nfd |-> <<"n", "U+0323">>],
      [c |-> "U+1E48", ord |-> 7752, lower |-> <<"U+1E49">>, nfd |-> <<"N", "U+0331">>],
      [c |-> "U+1E49", ord |-> 7753, lower |-> <<"U+1E49">>, nfd |-> <<"n", "U+0331">>],
      [c |-> "U+1E4A", ord |-> 7754, lower |-> <<"U+1E4B">>, nfd |-> <<"N", "U+032D">>],
      [c |-> "U+1E4B", ord |-> 7755, lower |-> <<"U+1E4B">>, nfd |-> <<"n", "U+032D">>],
      [c |-> "U+1E4C", ord |-> 7756, lower |-> <<"U+1E4D">>, nfd |-> <<"O", "U+0303", "U+0301">>],
      [c |-> "U+1E4D", ord |-> 7757, lower |-> <<"U+1E4D">>, nfd |-> <<"o", "U+0303", "U+0301">>],
      [c |-> "U+1E4E", ord |-> 7758, lower |-> <<"U+1E4F">>, nfd |-> <<"O", "U+0303", "U+0308">>],
      [c |-> "U+1E4F", ord |-> 7759, lower |-> <<"U+1E4F">>, nfd |-> <<"o", "U+0303", "U+0308">>],
      [c |-> "U+1E50", ord |-> 7760, lower |-> <<"U+1E51">>, nfd |-> <<"O", "U+0304", "U+0300">>],
      [c |-> "U+1E51", ord |-> 7761, lower |-> <<"U+1E51">>, nfd |-> <<"o", "U+0304", "U+0300">>],
      [c |-> "U+1E52", ord |-> 7762, lower |-> <<"U+1E53">>, nfd |-> <<"O", "U+0304", "U+0301">>],
      [c |-> "U+1E53", ord |-> 7763, lower |-> <<"U+1E53">>, nfd |-> <<"o", "U+0304", "U+0301">>],
      [c |-> "U+1E54", ord |-> 7764, lower |-> <<"U+1E55">>, nfd |-> <<"P", "U+0301">>],
      [c |-> "U+1E55", ord |-> 7765, lower |-> <<"U+1E55">>, nfd |-> <<"p", "U+0301">>],
      [c |-> "U+1E56", ord |-> 7766, lower |-> <<"U+1E57">>, nfd |-> <<"P", "U+0307">>],
      [c |-> "U+1E57", ord |-> 7767, lower |-> <<"U+1E57">>, nfd |-> <<"p", "U+0307">>],
      [c |-> "U+1E58", ord |-> 7768, lower |-> <<"U+1E59">>, nfd |-> <<"R", "U+0307">>],
      [c |-> "U+1E59", ord |-> 7769, lower |-> <<"U+1E59">>, nfd |-> <<"r", "U+0307">>],
      [c |-> "U+1E5A", ord |-> 7770, lower |-> <<"U+1E5B">>, nfd |-> <<"R", "U+0323">>],
      [c |-> "U+1E5B", ord |-> 7771, lower |-> <<"U+1E5B">>, nfd |-> <<"r", "U+0323">>],
      [c |-> "U+1E5C", ord |-> 7772, lower |-> <<"U+1E5D">>, nfd |-> <<"R", "U+0323", "U+0304">>],
      [c |-> "U+1E5D", ord |-> 7773, lower |-> <<"U+1E5D">>, nfd |-> <<"r", "U+0323", "U+0304">>],
      [c |-> "U+1E5E", ord |-> 7774, lower |-> <<"U+1E5F">>, nfd |-> <<"R", "U+0331">>],
      [c |-> "U+1E5F", ord |-> 7775, lower |-> <<"U+1E5F">>, nfd |-> <<"r", "U+0331">>],
      [c |-> "U+1E60", ord |-> 7776, lower |-> <<"U+1E61">>, nfd |-> <<"S", "U+0307">>],
      [c |-> "U+1E61", ord |-> 7777, lower |-> <<"U+1E61">>, nfd |-> <<"s", "U+0307">>],
      [c |-> "U+1E62", ord |-> 7778, lower |-> <<"U+1E63">>, nfd |-> <<"S", "U+0323">>],
      [c |-> "U+1E63", ord |-> 7779, lower |-> <<"U+1E63">>, nfd |-> <<"s", "U+0323">>],
      [c |-> "U+1E64", ord |-> 7780, lower |-> <<"U+1E65">>, nfd |-> <<"S", "U+0301", "U+0307">>],
      [c |-> "U+1E65", ord |-> 7781, lower |-> <<"U+1E65">>, nfd |-> <<"s", "U+0301", "U+0307">>],
      [c |-> "U+1E66", ord |-> 7782, lower |-> <<"U+1E67">>, nfd |-> <<"S", "U+030C", "U+0307">>],
      [c |-> "U+1E67", ord |-> 7783, lower |-> <<"U+1E67">>, nfd |-> <<"s", "U+030C", "U+0307">>],
      [c |-> "U+1E68", ord |-> 7784, lower |-> <<"U+1E69">>, nfd |-> <<"S", "U+0323", "U+0307">>],
      [c |-> "U+1E69", ord |-> 7785, lower |-> <<"U+1E69">>, nfd |-> <<"s", "U+0323", "U+0307">>],
      [c |-> "U+1E6A", ord |-> 7786, lower |-> <<"U+1E6B">>, nfd |-> <<"T", "U+0307">>],
      [c |-> "U+1E6B", ord |-> 7787, lower |-> <<"U+1E6B">>, nfd |-> <<"t", "U+0307">>],
      [c |-> "U+1E6C", ord |-> 7788, lower |-> <<"U+1E6D">>, nfd |-> <<"T", "U+0323">>],
      [c |-> "U+1E6D", ord |-> 7789, lower |-> <<"U+1E6D">>, nfd |-> <<"t", "U+0323">>],
      [c |-> "U+1E6E", ord |-> 7790, lower |-> <<"U+1E6F">>, nfd |-> <<"T", "U+0331">>],
      [c |-> "U+1E6F", ord |-> 7791, lower |-> <<"U+1E6F">>, nfd |-> <<"t", "U+0331">>],
      [c |-> "U+1E70", ord |-> 7792, lower |-> <<"U+1E71">>, nfd |-> <<"T", "U+032D">>],
      [c |-> "U+1E71", ord |-> 7793, lower |-> <<"U+1E71">>, nfd |-> <<"t", "U+032D">>],
      [c |-> "U+1E72", ord |-> 7794, lower |-> <<"U+1E73">>, nfd |-> <<"U", "U+0324">>],
      [c |-> "U+1E73", ord |-> 7795, lower |-> <<"U+1E73">>, nfd |-> <<"u", "U+0324">>],
      [c |-> "U+1E74", ord |-> 7796, lower |-> <<"U+1E75">>, nfd |-> <<"U", "U+0330">>],
      [c |-> "U+1E75", ord |-> 7797, lower |-> <<"U+1E75">>, nfd |-> <<"u", "U+0330">>],
      [c |-> "U+1E76", ord |-> 7798, lower |-> <<"U+1E77">>, nfd |-> <<"U", "U+032D">>],
      [c |-> "U+1E77", ord |-> 7799, lower |-> <<"U+1E77">>, nfd |-> <<"u", "U+032D">>],
      [c |-> "U+1E78", ord |-> 7800, lower |-> <<"U+1E79">>, nfd |-> <<"U", "U+0303", "U+0301">>],
      [c |-> "U+1E79", ord |-> 7801, lower |-> <<"U+1E79">>, nfd |-> <<"u", "U+0303", "U+0301">>],
      [c |-> "U+1E7A", ord |-> 7802, lower |-> <<"U+1E7B">>, nfd |-> <<"U", "U+0304", "U+0308">>],
      [c |-> "U+1E7B", ord |-> 7803, lower |-> <<"U+1E7B">>, nfd |-> <<"u", "U+0304", "U+0308">>],
      [c |-> "U+1E7C", ord |-> 7804, lower |-> <<"U+1E7D">>, nfd |-> <<"V", "U+0303">>],
      [c |-> "U+1E7D", ord |-> 7805, lower |-> <<"U+1E7D">>, nfd |-> <<"v", "U+0303">>],
      [c |-> "U+1E7E", ord |-> 7806, lower |-> <<"U+1E7F">>, nfd |-> <<"V", "U+0323">>],
      [c |-> "U+1E7F", ord |-> 7807, lower |-> <<"U+1E7F">>, nfd |-> <<"v", "U+0323">>],
      [c |-> "U+1E80", ord |-> 7808, lower |-> <<"U+1E81">>, nfd |-> <<"W", "U+0300">>],
      [c |-> "U+1E81", ord |-> 7809, lower |-> <<"U+1E81">>, nfd |-> <<"w", "U+0300">>],
      [c |-> "U+1E82", ord |-> 7810, lower |-> <<"U+1E83">>, nfd |-> <<"W", "U+0301">>],
      [c |-> "U+1E83", ord |-> 7811, lower |-> <<"U+1E83">>, nfd |-> <<"w", "U+0301">>],
      [c |-> "U+1E84", ord |-> 7812, lower |-> <<"U+1E85">>, nfd |-> <<"W", "U+0308">>],
      [c |-> "U+1E85", ord |-> 7813, lower |-> <<"U+1E85">>, nfd |-> <<"w", "U+0308">>],
      [c |-> "U+1E86", ord |-> 7814, lower |-> <<"U+1E87">>, nfd |-> <<"W", "U+0307">>],
      [c |-> "U+1E87", ord |-> 7815, lower |-> <<"U+1E87">>, nfd |-> <<"w", "U+0307">>],
      [c |-> "U+1E88", ord |-> 7816, lower |-> <<"U+1E89">>, nfd |-> <<"W", "U+0323">>],
      [c |-> "U+1E89", ord |-> 7817, lower |-> <<"U+1E89">>, nfd |-> <<"w", "U+0323">>],
      [c |-> "U+1E8A", ord |-> 7818, lower |-> <<"U+1E8B">>, nfd |-> <<"X", "U+0307">>],
      [c |-> "U+1E8B", ord |-> 7819, lower |-> <<"U+1E8B">>, nfd |-> <<"x", "U+0307">>],
      [c |-> "U+1E8C", ord |-> 7820, lower |-> <<"U+1E8D">>, nfd |-> <<"X", "U+0308">>],
      [c |-> "U+1E8D", ord |-> 7821, lower |-> <<"U+1E8D">>, nfd |-> <<"x", "U+0308">>],
      [c |-> "U+1E8E", ord |-> 7822, lower |-> <<"U+1E8F">>, nfd |-> <<"Y", "U+0307">>],
      [c |-> "U+1E8F", ord |-> 7823, lower |-> <<"U+1E8F">>, nfd |-> <<"y", "U+0307">>],
      [c |-> "U+1E90", ord |-> 7824, lower |-> <<"U+1E91">>, nfd |-> <<"Z", "U+0302">>],
      [c |-> "U+1E91", ord |-> 7825, lower |-> <<"U+1E91">>, nfd |-> <<"z", "U+0302">>],
      [c |-> "U+1E92", ord |-> 7826, lower |-> <<"U+1E93">>, nfd |-> <<"Z", "U+0323">>],
      [c |-> "U+1E93", ord |-> 7827, lower |-> <<"U+1E93">>, nfd |-> <<"z", "U+0323">>],
      [c |-> "U+1E94", ord |-> 7828, lower |-> <<"U+1E95">>, nfd |-> <<"Z", "U+0331">>],
      [c |-> "U+1E95", ord |-> 7829, lower |-> <<"U+1E95">>, nfd |-> <<"z", "U+0331">>],
      [c |-> "U+1E96", ord |-> 7830, lower |-> <<"U+1E96">>, nfd |-> <<"h", "U+0331">>],
      [c |-> "U+1E97", ord |-> 7831, lower |-> <<"U+1E97">>, nfd |-> <<"t", "U+0308">>],
      [c |-> "U+1E98", ord |-> 7832, lower |-> <<"U+1E98">>, nfd |-> <<"w", "U+030A">>],
      [c |-> "U+1E99", ord |-> 7833, lower |-> <<"U+1E99">>, nfd |-> <<"y", "U+030A">>],
      [c |-> "U+1E9A", ord |-> 7834, lower |-> <<"U+1E9A">>, nfd |-> <<"U+1E9A">>],
      [c |-> "U+1E9B", ord |-> 7835, lower |-> <<"U+1E9B">>, nfd |-> <<"U+017F", "U+0307">>],
      [c |-> "U+1E9C", ord |-> 7836, lower |-> <<"U+1E9C">>, nfd |-> <<"U+1E9C">>],
      [c |-> "U+1E9D", ord |-> 7837, lower |-> <<"U+1E9D">>, nfd |-> <<"U+1E9D">>],
      [c |-> "U+1E9E", ord |-> 7838, lower |-> <<"U+00DF">>, nfd |-> <<"U+1E9E">>],
      [c |-> "U+1E9F", ord |-> 7839, lower |-> <<"U+1E9F">>, nfd |-> <<"U+1E9F">>],
      [c |-> "U+1EA0", ord |-> 7840, lower |-> <<"U+1EA1">>, nfd |-> <<"A", "U+0323">>],
      [c |-> "U+1EA1", ord |-> 7841, lower |-> <<"U+1EA1">>, nfd |-> <<"a", "U+0323">>],
      [c |-> "U+1EA2", ord |-> 7842, lower |-> <<"U+1EA3">>, nfd |-> <<"A", "U+0309">>],
      [c |-> "U+1EA3", ord |-> 7843, lower |-> <<"U+1EA3">>, nfd |-> <<"a", "U+0309">>],
      [c |-> "U+1EA4", ord |-> 7844, lower |-> <<"U+1EA5">>, nfd |-> <<"A", "U+0302", "U+0301">>],
      [c |-> "U+1EA5", ord |-> 7845, lower |-> <<"U+1EA5">>, nfd |-> <<"a", "U+0302", "U+0301">>],
      [c |-> "U+1EA6", ord |-> 7846, lower |-> <<"U+1EA7">>, nfd |-> <<"A", "U+0302", "U+0300">>],
      [c |-> "U+1EA7", ord |-> 7847, lower |-> <<"U+1EA7">>, nfd |-> <<"a", "U+0302", "U+0300">>],
      [c |-> "U+1EA8", ord |-> 7848, lower |-> <<"U+1EA9">>, nfd |-> <<"A", "U+0302", "U+0309">>],
      [c |-> "U+1EA9", ord |-> 7849, lower |-> <<"U+1EA9">>, nfd |-> <<"a", "U+0302", "U+0309">>],
      [c |-> "U+1EAA", ord |-> 7850, lower |-> <<"U+1EAB">>, nfd |-> <<"A", "U+0302", "U+0303">>],
      [c |-> "U+1EAB", ord |-> 7851, lower |-> <<"U+1EAB">>, nfd |-> <<"a", "U+0302", "U+0303">>],
      [c |-> "U+1EAC", ord |-> 7852, lower |-> <<"U+1EAD">>, nfd |-> <<"A", "U+0323", "U+0302">>],
      [c |-> "U+1EAD", ord |-> 7853, lower |-> <<"U+1EAD">>, nfd |-> <<"a", "U+0323", "U+0302">>],
      [c |-> "U+1EAE", ord |-> 7854, lower |-> <<"U+1EAF">>, nfd |-> <<"A", "U+0306", "U+0301">>],
      [c |-> "U+1EAF", ord |-> 7855, lower |-> <<"U+1EAF">>, nfd |-> <<"a", "U+0306", "U+0301">>],
      [c |-> "U+1EB0", ord |-> 7856, lower |-> <<"U+1EB1">>, nfd |-> <<"A", "U+0306", "U+0300">>],
      [c |-> "U+1EB1", ord |-> 7857, lower |-> <<"U+1EB1">>, nfd |-> <<"a", "U+0306", "U+0300">>],
      [c |-> "U+1EB2", ord |-> 7858, lower |-> <<"U+1EB3">>, nfd |-> <<"A", "U+0306", "U+0309">>],
      [c |-> "U+1EB3", ord |-> 7859, lower |-> <<"U+1EB3">>, nfd |-> <<"a", "U+0306", "U+0309">>],
      [c |-> "U+1EB4", ord |-> 7860, lower |-> <<"U+1EB5">>, nfd |-> <<"A", "U+0306", "U+0303">>],
      [c |-> "U+1EB5", ord |-> 7861, lower |-> <<"U+1EB5">>, nfd |-> <<"a", "U+0306", "U+0303">>],
      [c |-> "U+1EB6", ord |-> 7862, lower |-> <<"U+1EB7">>, nfd |-> <<"A", "U+0323", "U+0306">>],
      [c |-> "U+1EB7", ord |-> 7863, lower |-> <<"U+1EB7">>, nfd |-> <<"a", "U+0323", "U+0306">>],
      [c |-> "U+1EB8", ord |-> 7864, lower |-> <<"U+1EB9">>, nfd |-> <<"E", "U+0323">>],
      [c |-> "U+1EB9", ord |-> 7865, lower |-> <<"U+1EB9">>, nfd |-> <<"e", "U+0323">>],
      [c |-> "U+1EBA", ord |-> 7866, lower |-> <<"U+1EBB">>, nfd |-> <<"E", "U+0309">>],
      [c |-> "U+1EBB", ord |-> 7867, lower |-> <<"U+1EBB">>, nfd |-> <<"e", "U+0309">>],
      [c |-> "U+1EBC", ord |-> 7868, lower |-> <<"U+1EBD">>, nfd |-> <<"E", "U+0303">>],
      [c |-> "U+1EBD", ord |-> 7869, lower |-> <<"U+1EBD">>, nfd |-> <<"e", "U+0303">>],
      [c |-> "U+1EBE", ord |-> 7870, lower |-> <<"U+1EBF">>, nfd |-> <<"E", "U+0302", "U+0301">>],
      [c |-> "U+1EBF", ord |-> 7871, lower |-> <<"U+1EBF">>, nfd |-> <<"e", "U+0302", "U+0301">>],
      [c |-> "U+1EC0", ord |-> 7872, lower |-> <<"U+1EC1">>, nfd |-> <<"E", "U+0302", "U+0300">>],
      [c |-> "U+1EC1", ord |-> 7873, lower |-> <<"U+1EC1">>, nfd |-> <<"e", "U+0302", "U+0300">>],
      [c |-> "U+1EC2", ord |-> 7874, lower |-> <<"U+1EC3">>, nfd |-> <<"E", "U+0302", "U+0309">>],
      [c |-> "U+1EC3", ord |-> 7875, lower |-> <<"U+1EC3">>, nfd |-> <<"e", "U+0302", "U+0309">>],
      [c |-> "U+1EC4", ord |-> 7876, lower |-> <<"U+1EC5">>, nfd |-> <<"E", "U+0302", "U+0303">>],
      [c |-> "U+1EC5", ord |-> 7877, lower |-> <<"U+1EC5">>, nfd |-> <<"e", "U+0302", "U+0303">>],
      [c |-> "U+1EC6", ord |-> 7878, lower |-> <<"U+1EC7">>, nfd |-> <<"E", "U+0323", "U+0302">>],
      [c |-> "U+1EC7", ord |-> 7879, lower |-> <<"U+1EC7">>, nfd |-> <<"e", "U+0323", "U+0302">>],
      [c |-> "U+1EC8", ord |-> 7880, lower |-> <<"U+1EC9">>, nfd |-> <<"I", "U+0309">>],
      [c |-> "U+1EC9", ord |-> 7881, lower |-> <<"U+1EC9">>, nfd |-> <<"i", "U+0309">>],
      [c |-> "U+1ECA", ord |-> 7882, lower |-> <<"U+1ECB">>, nfd |-> <<"I", "U+0323">>],
      [c |-> "U+1ECB", ord |-> 7883, lower |-> <<"U+1ECB">>, nfd |-> <<"i", "U+0323">>],
      [c |-> "U+1ECC", ord |-> 7884, lower |-> <<"U+1ECD">>, nfd |-> <<"O", "U+0323">>],
      [c |-> "U+1ECD", ord |-> 7885, lower |-> <<"U+1ECD">>, nfd |-> <<"o", "U+0323">>],
      [c |-> "U+1ECE", ord |-> 7886, lower |-> <<"U+1ECF">>, nfd |-> <<"O", "U+0309">>],
      [c |-> "U+1ECF", ord |-> 7887, lower |-> <<"U+1ECF">>, nfd |-> <<"o", "U+0309">>],
      [c |-> "U+1ED0", ord |-> 7888, lower |-> <<"U+1ED1">>, nfd |-> <<"O", "U+0302", "U+0301">>],
      [c |-> "U+1ED1", ord |-> 7889, lower |-> <<"U+1ED1">>, nfd |-> <<"o", "U+0302", "U+0301">>],
      [c |-> "U+1ED2", ord |-> 7890, lower |-> <<"U+1ED3">>, nfd |-> <<"O", "U+0302", "U+0300">>],
      [c |-> "U+1ED3", ord |-> 7891, lower |-> <<"U+1ED3">>, nfd |-> <<"o", "U+0302", "U+0300">>],
      [c |-> "U+1ED4", ord |-> 7892, lower |-> <<"U+1ED5">>, nfd |-> <<"O", "U+0302", "U+0309">>],
      [c |-> "U+1ED5", ord |-> 7893, lower |-> <<"U+1ED5">>, nfd |-> <<"o", "U+0302", "U+0309">>],
      [c |-> "U+1ED6", ord |-> 7894, lower |-> <<"U+1ED7">>, nfd |-> <<"O", "U+0302", "U+0303">>],
      [c |-> "U+1ED7", ord |-> 7895, lower |-> <<"U+1ED7">>, nfd |-> <<"o", "U+0302", "U+0303">>],
      [c |-> "U+1ED8", ord |-> 7896, lower |-> <<"U+1ED9">>, nfd |-> <<"O", "U+0323", "U+0302">>],
      [c |-> "U+1ED9", ord |-> 7897, lower |-> <<"U+1ED9">>, nfd |-> <<"o", "U+0323", "U+0302">>],
      [c |-> "U+1EDA", ord |-> 7898, lower |-> <<"U+1EDB">>, nfd |-> <<"O", "U+031B", "U+0301">>],
      [c |-> "U+1EDB", ord |-> 7899, lower |-> <<"U+1EDB">>, nfd |-> <<"o", "U+031B", "U+0301">>],
      [c |-> "U+1EDC", ord |-> 7900, lower |-> <<"U+1EDD">>, nfd |-> <<"O", "U+031B", "U+0300">>],
      [c |-> "U+1EDD", ord |-> 7901, lower |-> <<"U+1EDD">>, nfd |-> <<"o", "U+031B", "U+0300">>],
      [c |-> "U+1EDE", ord |-> 7902, lower |-> <<"U+1EDF">>, nfd |-> <<"O", "U+031B", "U+0309">>],
      [c |-> "U+1EDF", ord |-> 7903, lower |-> <<"U+1EDF">>, nfd |-> <<"o", "U+031B", "U+0309">>],
      [c |-> "U+1EE0", ord |-> 7904, lower |-> <<"U+1EE1">>, nfd |-> <<"O", "U+031B", "U+0303">>],
      [c |-> "U+1EE1", ord |-> 7905, lower |-> <<"U+1EE1">>, nfd |-> <<"o", "U+031B", "U+0303">>],
      [c |-> "U+1EE2", ord |-> 7906, lower |-> <<"U+1EE3">>, nfd |-> <<"O", "U+031B", "U+0323">>],
      [c |-> "U+1EE3", ord |-> 7907, lower |-> <<"U+1EE3">>, nfd |-> <<"o", "U+031B", "U+0323">>],
      [c |-> "U+1EE4", ord |-> 7908, lower |-> <<"U+1EE5">>, nfd |-> <<"U", "U+0323">>],
      [c |-> "U+1EE5", ord |-> 7909, lower |-> <<"U+1EE5">>, nfd |-> <<"u", "U+0323">>],
      [c |-> "U+1EE6", ord |-> 7910, lower |-> <<"U+1EE7">>, nfd |-> <<"U", "U+0309">>],
      [c |-> "U+1EE7", ord |-> 7911, lower |-> <<"U+1EE7">>, nfd |-> <<"u", "U+0309">>],
      [c |-> "U+1EE8", ord |-> 7912, lower |-> <<"U+1EE9">>, nfd |-> <<"U", "U+031B", "U+0301">>],
      [c |-> "U+1EE9", ord |-> 7913, lower |-> <<"U+1EE9">>, nfd |-> <<"u", "U+031B", "U+0301">>],
      [c |-> "U+1EEA", ord |-> 7914, lower |-> <<"U+1EEB">>, nfd |-> <<"U", "U+031B", "U+0300">>],
      [c |-> "U+1EEB", ord |-> 7915, lower |-> <<"U+1EEB">>, nfd |-> <<"u", "U+031B", "U+0300">>],
      [c |-> "U+1EEC", ord |-> 7916, lower |-> <<"U+1EED">>, nfd |-> <<"U", "U+031B", "U+0309">>],
      [c |-> "U+1EED", ord |-> 7917, lower |-> <<"U+1EED">>, nfd |-> <<"u", "U+031B", "U+0309">>],
      [c |-> "U+1EEE", ord |-> 7918, lower |-> <<"U+1EEF">>, nfd |-> <<"U", "U+031B", "U+0303">>],
      [c |-> "U+1EEF", ord |-> 7919, lower |-> <<"U+1EEF">>, nfd |-> <<"u", "U+031B", "U+0303">>],
      [c |-> "U+1EF0", ord |-> 7920, lower |-> <<"U+1EF1">>, nfd |-> <<"U", "U+031B", "U+0323">>],
      [c |-> "U+1EF1", ord |-> 7921, lower |-> <<"U+1EF1">>, nfd |-> <<"u", "U+031B", "U+0323">>],
      [c |-> "U+1EF2", ord |-> 7922, lower |-> <<"U+1EF3">>, nfd |-> <<"Y", "U+0300">>],
      [c |-> "U+1EF3", ord |-> 7923, lower |-> <<"U+1EF3">>, nfd |-> <<"y", "U+0300">>],
      [c |-> "U+1EF4", ord |-> 7924, lower |-> <<"U+1EF5">>, nfd |-> <<"Y", "U+0323">>],
      [c |-> "U+1EF5", ord |-> 7925, lower |-> <<"U+1EF5">>, nfd |-> <<"y", "U+0323">>],
      [c |-> "U+1EF6", ord |-> 7926, lower |-> <<"U+1EF7">>, nfd |-> <<"Y", "U+0309">>],
      [c |-> "U+1EF7", ord |-> 7927, lower |-> <<"U+1EF7">>, nfd |-> <<"y", "U+0309">>],
      [c |-> "U+1EF8", ord |-> 7928, lower |-> <<"U+1EF9">>, nfd |-> <<"Y", "U+0303">>],
      [c |-> "U+1EF9", ord |-> 7929, lower |-> <<"U+1EF9">>, nfd |-> <<"y", "U+0303">>],
      [c |-> "U+1EFA", ord |-> 7930, lower |-> <<"U+1EFB">>, nfd |-> <<"U+1EFA">>],
      [c |-> "U+1EFB", ord |-> 7931, lower |-> <<"U+1EFB">>, nfd |-> <<"U+1EFB">>],
      [c |-> "U+1EFC", ord |-> 7932, lower |-> <<"U+1EFD">>, nfd |-> <<"U+1EFC">>],
      [c |-> "U+1EFD", ord |-> 7933, lower |-> <<"U+1EFD">>, nfd |-> <<"U+1EFD">>],
      [c |-> "U+1EFE", ord |-> 7934, lower |-> <<"U+1EFF">>, nfd |-> <<"U+1EFE">>],
      [c |-> "U+1EFF", ord |-> 7935, lower |-> <<"U+1EFF">>, nfd |-> <<"U+1EFF">>],
      [c |-> "U+2C65", ord |-> 11365, lower |-> <<"U+2C65">>, nfd |-> <<"U+2C65">>],
      [c |-> "U+2C66", ord |-> 11366, lower |-> <<"U+2C66">>, nfd |-> <<"U+2C66">>]>>

Unicode(c) ==
    LET row(table) == table[CHOOSE k \in 1..Len(table) : table[k].c = c]
    IN  row(unicodedata)

\* the decimal digits outside ASCII (category Nd), which \d matches too
UnicodeDecimalDigits ==
    {"U+0660", "U+0661", "U+0662", "U+0663", "U+0664", "U+0665", "U+0666",
     "U+0667", "U+0668", "U+0669", "U+06F0", "U+06F1", "U+06F2", "U+06F3",
     "U+06F4", "U+06F5", "U+06F6", "U+06F7", "U+06F8", "U+06F9", "U+07C0",
     "U+07C1", "U+07C2", "U+07C3", "U+07C4", "U+07C5", "U+07C6", "U+07C7",
     "U+07C8", "U+07C9", "U+0966", "U+0967", "U+0968", "U+0969", "U+096A",
     "U+096B", "U+096C", "U+096D", "U+096E", "U+096F", "U+09E6", "U+09E7",
     "U+09E8", "U+09E9", "U+09EA", "U+09EB", "U+09EC", "U+09ED", "U+09EE",
     "U+09EF", "U+0A66", "U+0A67", "U+0A68", "U+0A69", "U+0A6A", "U+0A6B",
     "U+0A6C", "U+0A6D", "U+0A6E", "U+0A6F", "U+0AE6", "U+0AE7", "U+0AE8",
     "U+0AE9", "U+0AEA", "U+0AEB", "U+0AEC", "U+0AED", "U+0AEE", "U+0AEF",
     "U+0B66", "U+0B67", "U+0B68", "U+0B69", "U+0B6A", "U+0B6B", "U+0B6C",
     "U+0B6D", "U+0B6E", "U+0B6F", "U+0BE6", "U+0BE7", "U+0BE8", "U+0BE9",
     "U+0BEA", "U+0BEB", "U+0BEC", "U+0BED", "U+0BEE", "U+0BEF", "U+0C66",
     "U+0C67", "U+0C68", "U+0C69", "U+0C6A", "U+0C6B", "U+0C6C", "U+0C6D",
     "U+0C6E", "U+0C6F", "U+0CE6", "U+0CE7", "U+0CE8", "U+0CE9", "U+0CEA",
     "U+0CEB", "U+0CEC", "U+0CED", "U+0CEE", "U+0CEF", "U+0D66", "U+0D67",
     "U+0D68", "U+0D69", "U+0D6A", "U+0D6B", "U+0D6C", "U+0D6D", "U+0D6E",
     "U+0D6F", "U+0DE6", "U+0DE7", "U+0DE8", "U+0DE9", "U+0DEA", "U+0DEB",
     "U+0DEC", "U+0DED", "U+0DEE", "U+0DEF", "U+0E50", "U+0E51", "U+0E52",
     "U+0E53", "U+0E54", "U+0E55", "U+0E56", "U+0E57", "U+0E58", "U+0E59",
     "U+0ED0", "U+0ED1", "U+0ED2", "U+0ED3", "U+0ED4", "U+0ED5", "U+0ED6",
     "U+0ED7", "U+0ED8", "U+0ED9", "U+0F20", "U+0F21", "U+0F22", "U+0F23",
     "U+0F24", "U+0F25", "U+0F26", "U+0F27", "U+0F28", "U+0F29", "U+1040",
     "U+1041", "U+1042", "U+1043", "U+1044", "U+1045", "U+1046", "U+1047",
     "U+1048", "U+1049", "U+1090", "U+1091", "U+1092", "U+1093", "U+1094",
     "U+1095", "U+1096", "U+1097", "U+1098", "U+1099", "U+17E0", "U+17E1",
     "U+17E2", "U+17E3", "U+17E4", "U+17E5", "U+17E6", "U+17E7", "U+17E8",
     "U+17E9", "U+1810", "U+1811", "U+1812", "U+1813", "U+1814", "U+1815",
     "U+1816", "U+1817", "U+1818", "U+1819", "U+1946", "U+1947", "U+1948",
     "U+1949", "U+194A", "U+194B", "U+194C", "U+194D", "U+194E", "U+194F",
     "U+19D0", "U+19D1", "U+19D2", "U+19D3", "U+19D4", "U+19D5", "U+19D6",
     "U+19D7", "U+19D8", "U+19D9", "U+1A80", "U+1A81", "U+1A82", "U+1A83",
     "U+1A84", "U+1A85", "U+1A86", "U+1A87", "U+1A88", "U+1A89", "U+1A90",
     "U+1A91", "U+1A92", "U+1A93", "U+1A94", "U+1A95", "U+1A96", "U+1A97",
     "U+1A98", "U+1A99", "U+1B50", "U+1B51", "U+1B52", "U+1B53", "U+1B54",
     "U+1B55", "U+1B56", "U+1B57", "U+1B58", "U+1B59", "U+1BB0", "U+1BB1",
     "U+1BB2", "U+1BB3", "U+1BB4", "U+1BB5", "U+1BB6", "U+1BB7", "U+1BB8",
     "U+1BB9", "U+1C40", "U+1C41", "U+1C42", "U+1C43", "U+1C44", "U+1C45",
     "U+1C46", "U+1C47", "U+1C48", "U+1C49", "U+1C50", "U+1C51", "U+1C52",
     "U+1C53", "U+1C54", "U+1C55", "U+1C56", "U+1C57", "U+1C58", "U+1C59",
     "U+A620", "U+A621", "U+A622", "U+A623", "U+A624", "U+A625", "U+A626",
     "U+A627", "U+A628", "U+A629", "U+A8D0", "U+A8D1", "U+A8D2", "U+A8D3",
     "U+A8D4", "U+A8D5", "U+A8D6", "U+A8D7", "U+A8D8", "U+A8D9", "U+A900",
     "U+A901", "U+A902", "U+A903", "U+A904", "U+A905", "U+A906", "U+A907",
     "U+A908", "U+A909", "U+A9D0", "U+A9D1", "U+A9D2", "U+A9D3", "U+A9D4",
     "U+A9D5", "U+A9D6", "U+A9D7", "U+A9D8", "U+A9D9", "U+A9F0", "U+A9F1",
     "U+A9F2", "U+A9F3", "U+A9F4", "U+A9F5", "U+A9F6", "U+A9F7", "U+A9F8",
     "U+A9F9", "U+AA50", "U+AA51", "U+AA52", "U+AA53", "U+AA54", "U+AA55",
     "U+AA56", "U+AA57", "U+AA58", "U+AA59", "U+ABF0", "U+ABF1", "U+ABF2",
     "U+ABF3", "U+ABF4", "U+ABF5", "U+ABF6", "U+ABF7", "U+ABF8", "U+ABF9",
     "U+FF10", "U+FF11", "U+FF12", "U+FF13", "U+FF14", "U+FF15", "U+FF16",
     "U+FF17", "U+FF18", "U+FF19", "U+104A0", "U+104A1", "U+104A2",
     "U+104A3", "U+104A4", "U+104A5", "U+104A6", "U+104A7", "U+104A8",
     "U+104A9", "U+10D30", "U+10D31", "U+10D32", "U+10D33", "U+10D34",
     "U+10D35", "U+10D36", "U+10D37", "U+10D38", "U+10D39", "U+11066",
     "U+11067", "U+11068", "U+11069", "U+1106A", "U+1106B", "U+1106C",
     "U+1106D", "U+1106E", "U+1106F", "U+110F0", "U+110F1", "U+110F2",
     "U+110F3", "U+110F4", "U+110F5", "U+110F6", "U+110F7", "U+110F8",
     "U+110F9", "U+11136", "U+11137", "U+11138", "U+11139", "U+1113A",
     "U+1113B", "U+1113C", "U+1113D", "U+1113E", "U+1113F", "U+111D0",
     "U+111D1", "U+111D2", "U+111D3", "U+111D4", "U+111D5", "U+111D6",
     "U+111D7", "U+111D8", "U+111D9", "U+112F0", "U+112F1", "U+112F2",
     "U+112F3", "U+112F4", "U+112F5", "U+112F6", "U+112F7", "U+112F8",
     "U+112F9", "U+11450", "U+11451", "U+11452", "U+11453", "U+11454",
     "U+11455", "U+11456", "U+11457", "U+11458", "U+11459", "U+114D0",
     "U+114D1", "U+114D2", "U+114D3", "U+114D4", "U+114D5", "U+114D6",
     "U+114D7", "U+114D8", "U+114D9", "U+11650", "U+11651", "U+11652",
     "U+11653", "U+11654", "U+11655", "U+11656", "U+11657", "U+11658",
     "U+11659", "U+116C0", "U+116C1", "U+116C2", "U+116C3", "U+116C4",
     "U+116C5", "U+116C6", "U+116C7", "U+116C8", "U+116C9", "U+11730",
     "U+11731", "U+11732", "U+11733", "U+11734", "U+11735", "U+11736",
     "U+11737", "U+11738", "U+11739", "U+118E0", "U+118E1", "U+118E2",
     "U+118E3", "U+118E4", "U+118E5", "U+118E6", "U+118E7", "U+118E8",
     "U+118E9", "U+11950", "U+11951", "U+11952", "U+11953", "U+11954",
     "U+11955", "U+11956", "U+11957", "U+11958", "U+11959", "U+11C50",
     "U+11C51", "U+11C52", "U+11C53", "U+11C54", "U+11C55", "U+11C56",
     "U+11C57", "U+11C58", "U+11C59", "U+11D50", "U+11D51", "U+11D52",
     "U+11D53", "U+11D54", "U+11D55", "U+11D56", "U+11D57", "U+11D58",
     "U+11D59", "U+11DA0", "U+11DA1", "U+11DA2", "U+11DA3", "U+11DA4",
     "U+11DA5", "U+11DA6", "U+11DA7", "U+11DA8", "U+11DA9", "U+16A60",
     "U+16A61", "U+16A62", "U+16A63", "U+16A64", "U+16A65", "U+16A66",
     "U+16A67", "U+16A68", "U+16A69", "U+16AC0", "U+16AC1", "U+16AC2",
     "U+16AC3", "U+16AC4", "U+16AC5", "U+16AC6", "U+16AC7", "U+16AC8",
     "U+16AC9", "U+16B50", "U+16B51", "U+16B52", "U+16B53", "U+16B54",
     "U+16B55", "U+16B56", "U+16B57", "U+16B58", "U+16B59", "U+1D7CE",
     "U+1D7CF", "U+1D7D0", "U+1D7D1", "U+1D7D2", "U+1D7D3", "U+1D7D4",
     "U+1D7D5", "U+1D7D6", "U+1D7D7", "U+1D7D8", "U+1D7D9", "U+1D7DA",
     "U+1D7DB", "U+1D7DC", "U+1D7DD", "U+1D7DE", "U+1D7DF", "U+1D7E0",
     "U+1D7E1", "U+1D7E2", "U+1D7E3", "U+1D7E4", "U+1D7E5", "U+1D7E6",
     "U+1D7E7", "U+1D7E8", "U+1D7E9", "U+1D7EA", "U+1D7EB", "U+1D7EC",
     "U+1D7ED", "U+1D7EE", "U+1D7EF", "U+1D7F0", "U+1D7F1", "U+1D7F2",
     "U+1D7F3", "U+1D7F4", "U+1D7F5", "U+1D7F6", "U+1D7F7", "U+1D7F8",
     "U+1D7F9", "U+1D7FA", "U+1D7FB", "U+1D7FC", "U+1D7FD", "U+1D7FE",
     "U+1D7FF", "U+1E140", "U+1E141", "U+1E142", "U+1E143", "U+1E144",
     "U+1E145", "U+1E146", "U+1E147", "U+1E148", "U+1E149", "U+1E2F0",
     "U+1E2F1", "U+1E2F2", "U+1E2F3", "U+1E2F4", "U+1E2F5", "U+1E2F6",
     "U+1E2F7", "U+1E2F8", "U+1E2F9", "U+1E950", "U+1E951", "U+1E952",
     "U+1E953", "U+1E954", "U+1E955", "U+1E956", "U+1E957", "U+1E958",
     "U+1E959", "U+1FBF0", "U+1FBF1", "U+1FBF2", "U+1FBF3", "U+1FBF4",
     "U+1FBF5", "U+1FBF6", "U+1FBF7", "U+1FBF8", "U+1FBF9"}

\* ============================================================ image stage
\* A URL is the sequence of its characters.
Digits ==
    {"0", "1", "2", "3", "4", "5", "6", "7", "8", "9"} \cup UnicodeDecimalDigits

\* re.IGNORECASE on the letters the patterns name
LowerCase(c) ==
    CASE c = "J" -> "j" [] c = "P" -> "p" [] c = "G" -> "g" [] c = "E" -> "e"
      [] c = "N" -> "n" [] c = "W" -> "w" [] c = "B" -> "b" [] c = "X" -> "x"
      [] OTHER -> c

\* (jpg|jpeg|png|webp)
Extensions ==
    {<<"j", "p", "g">>, <<"j", "p", "e", "g">>, <<"p", "n", "g">>,
     <<"w", "e", "b", "p">>}

Last(url, n) == SubSeq(url, Len(url) - n + 1, Len(url))
Lowered(str) == [i \in 1..Len(str) |-> LowerCase(str[i])]

\* what the pattern's $ anchors to: the end of the string, or the place before
\* a newline that ends it
Anchored(url) ==
    IF Len(url) > 0 /\ url[Len(url)] = "\n" THEN SubSeq(url, 1, Len(url) - 1)
    ELSE url

\* _extension_pattern.search(url): the lengths n for which the url ends in a
\* dot and one of the extensions, n characters long
ExtensionMatches(url) ==
    LET s == Anchored(url) IN
    {n \in 3..4 : /\ Len(s) >= n + 1
                  /\ s[Len(s) - n] = "."
                  /\ Lowered(Last(s, n)) \in Extensions}

\* _dimension_pattern.search(url): -\d+x\d+ right before the dot of the
\* extension
DimensionMatch(url) ==
    \E n \in ExtensionMatches(url) :
        LET s == Anchored(url)
            dot == Len(s) - n
        IN
        \E dash \in 1..dot, x \in 1..dot :
            /\ dash + 1 < x /\ x + 1 < dot
            /\ s[dash] = "-"
            /\ \A i \in (dash + 1)..(x - 1) : s[i] \in Digits
            /\ LowerCase(s[x]) = "x"
            /\ \A i \in (x + 1)..(dot - 1) : s[i] \in Digits

\* original_url.rsplit('.', 1)[0]
BeforeLastDot(url) ==
    LET dots == {i \in 1..Len(url) : url[i] = "."} IN
    IF dots = {} THEN url
    ELSE SubSeq(url, 1, (CHOOSE i \in dots : \A j \in dots : j <= i) - 1)

\* mutant: the test for a suffix that is already sized is missing
get_wordpress_optimized_url_Unchecked(original_url) ==
    IF ExtensionMatches(original_url) = {} THEN original_url
    ELSE LET n == CHOOSE m \in ExtensionMatches(original_url) : TRUE
             extension == Last(Anchored(original_url), n)
             base_url == BeforeLastDot(original_url)
         IN  base_url \o <<"-", "1", "0", "7", "0", "x", "1", "5", "3", "6", ".">>
                      \o extension

\* line 73-93
get_wordpress_optimized_url(original_url) ==
    IF DimensionMatch(original_url) THEN original_url
    ELSE IF ExtensionMatches(original_url) = {} THEN original_url
    ELSE LET n == CHOOSE m \in ExtensionMatches(original_url) : TRUE
             extension == Last(Anchored(original_url), n)
             base_url == BeforeLastDot(original_url)
         IN  base_url \o <<"-", "1", "0", "7", "0", "x", "1", "5", "3", "6", ".">>
                      \o extension


\* the pixel size of the default image (line 113)
PLACEHOLDER_WIDTH == 1070
PLACEHOLDER_HEIGHT == 1536
\* ThreadPoolExecutor(max_workers=10)
max_workers == 10
\* products passed to one _prefetch_images call
MaxProducts == 3

EmptyUrl == <<>>
\* the URLs download_image is called with
Urls ==
    {EmptyUrl,
     <<"a">>,
     <<"a", ".", "g", "i", "f">>,
     <<"a", ".", "j", "p", "g">>,
     <<"a", ".", "J", "P", "G">>,
     <<"a", ".", "j", "p", "e", "g">>,
     <<"a", ".", "p", "n", "g">>,
     <<"a", ".", "b", ".", "w", "e", "b", "p">>,
     <<"a", "-", "1", "x", "2", ".", "j", "p", "g">>,
     <<"a", "-", "3", "0", "X", "4", ".", "P", "N", "G">>,
     <<"a", "-", "x", "2", ".", "p", "n", "g">>,
     <<"a", "-", "1", "x", "2", ".", "j", "p", "g", ".", "p", "n", "g">>,
     <<"a", ".", "j", "p", "g", "\n">>,
     <<"a", "-", "1", "x", "2", ".", "w", "e", "b", "p", "\n">>,
     <<"a", "-", "U+0663", "x", "U+0664", ".", "j", "p", "g">>}
\* the thumbnail urls of the products of a render job
ThumbnailUrls ==
    {EmptyUrl,
     <<"a", ".", "j", "p", "g">>,
     <<"a", "-", "1", "x", "2", ".", "j", "p", "g">>}

NoImage == [kind |-> "none", from |-> EmptyUrl, size |-> <<0, 0>>]
\* Image.new('RGB', (1070, 1536), 'white')
Placeholder ==
    [kind |-> "placeholder", from |-> EmptyUrl,
     size |-> <<PLACEHOLDER_WIDTH, PLACEHOLDER_HEIGHT>>]
\* what raise leaves in place of a result
Raised == [kind |-> "raised", from |-> EmptyUrl, size |-> <<0, 0>>]

\* what one requests.get + raise_for_status + Image.open can end in: the
\* image, a requests.exceptions.RequestException (network error, HTTP error,
\* timeout, malformed URL), or another exception (PIL cannot decode).
\* The empty string is no URL: requests raises MissingSchema
FetchOutcomes(attempt_url) ==
    IF attempt_url = EmptyUrl THEN {"request_error"}
    ELSE {"image", "request_error", "other_error"}

\* line 100: urls_to_try = [get_wordpress_optimized_url(url), url]
urls_to_try(url) == <<get_wordpress_optimized_url(url), url>>

\* a download_image(url) call that is running, before its first attempt
Call(url) ==
    [url |-> url, pc |-> "running", tried |-> <<>>, result |-> NoImage,
     collected |-> FALSE]

\* mutant: only requests' own exceptions are caught
DiAttempt_OnlyRequestException(f) ==
    /\ f \in 1..Len(futures)
    /\ futures[f].pc = "running"
    /\ Len(futures[f].tried) < Len(urls_to_try(futures[f].url))
    /\ LET attempt_url == urls_to_try(futures[f].url)[Len(futures[f].tried) + 1] IN
       \E outcome \in FetchOutcomes(attempt_url) :
           futures' = [futures EXCEPT
               ![f].tried = Append(@, [url |-> attempt_url, outcome |-> outcome]),
               ![f].result = IF outcome = "image"
                             THEN [kind |-> "image", from |-> attempt_url,
                                   size |-> <<0, 0>>]
                             ELSE IF outcome = "other_error" THEN Raised
                             ELSE @,
               ![f].pc = IF outcome = "request_error" THEN "running"
                         ELSE "finished"]
    /\ UNCHANGED <<webvars, fnvars, pf_products, unique_urls, image_map, pf_pc>>

\* line 102-110: one turn of the loop over urls_to_try: fetch and decode the
\* next URL; return the image, or go on after either except clause
DiAttempt(f) ==
    /\ f \in 1..Len(futures)
    /\ futures[f].pc = "running"
    /\ Len(futures[f].tried) < Len(urls_to_try(futures[f].url))
    /\ LET attempt_url == urls_to_try(futures[f].url)[Len(futures[f].tried) + 1] IN
       \E outcome \in FetchOutcomes(attempt_url) :
           futures' = [futures EXCEPT
               ![f].tried = Append(@, [url |-> attempt_url, outcome |-> outcome]),
               ![f].result = IF outcome = "image"
                             THEN [kind |-> "image", from |-> attempt_url,
                                   size |-> <<0, 0>>]
                             ELSE @,
               ![f].pc = IF outcome = "image" THEN "finished" ELSE "running"]
    /\ UNCHANGED <<webvars, fnvars, pf_products, unique_urls, image_map, pf_pc>>

\* mutant: after the last URL has failed the call starts over
DiPlaceholder_Retry(f) ==
    /\ f \in 1..Len(futures)
    /\ futures[f].pc = "running"
    /\ Len(futures[f].tried) = Len(urls_to_try(futures[f].url))
    /\ futures' = [futures EXCEPT ![f].tried = <<>>]
    /\ UNCHANGED <<webvars, fnvars, pf_products, unique_urls, image_map, pf_pc>>

\* line 113: every URL failed: return the default image
DiPlaceholder(f) ==
    /\ f \in 1..Len(futures)
    /\ futures[f].pc = "running"
    /\ Len(futures[f].tried) = Len(urls_to_try(futures[f].url))
    /\ futures' = [futures EXCEPT ![f].result = Placeholder,
                                  ![f].pc = "finished"]
    /\ UNCHANGED <<webvars, fnvars, pf_products, unique_urls, image_map, pf_pc>>

\* ---------------------------------------------------------- _prefetch_images
\* mutant: a list comprehension in place of the set comprehension
UniqueUrlLists_NoDedup(thumbnails) ==
    {SelectSeq(thumbnails, LAMBDA url : url # EmptyUrl)}

\* line 122: list({p.thumbnail_url for p in products if p.thumbnail_url}): the
\* distinct non-empty urls, in whatever order the set yields them
UniqueUrlLists(thumbnails) ==
    LET urls == {thumbnails[i] : i \in 1..Len(thumbnails)} \ {EmptyUrl} IN
    {l \in [1..Cardinality(urls) -> urls] :
        \A i \in DOMAIN l, j \in DOMAIN l : i # j => l[i] # l[j]}

\* line 122-123
PfUniqueUrls ==
    /\ pf_pc = "start"
    /\ unique_urls' \in UniqueUrlLists(pf_products)
    /\ pf_pc' = "submit"
    /\ UNCHANGED <<webvars, fnvars, pf_products, futures, image_map>>

\* line 125-126: executor.submit(download_image, url) for the next url of
\* unique_urls; after the last one the loop over as_completed begins
PfSubmit ==
    /\ pf_pc = "submit"
    /\ IF Len(futures) < Len(unique_urls)
       THEN /\ futures' = Append(futures,
                   [Call(unique_urls[Len(futures) + 1]) EXCEPT !.pc = "pending"])
            /\ UNCHANGED pf_pc
       ELSE /\ pf_pc' = "collect"
            /\ UNCHANGED futures
    /\ UNCHANGED <<webvars, fnvars, pf_products, unique_urls, image_map>>

\* line 95-113: download_image(url) from its call to its return, as one step:
\* every path through it ends in a return of a fetched image or of the default
\* image
Returned == [kind |-> "returned", from |-> EmptyUrl, size |-> <<0, 0>>]
DownloadImage(f) ==
    /\ f \in 1..Len(futures)
    /\ futures[f].pc = "running"
    /\ futures' = [futures EXCEPT ![f].result = Returned, ![f].pc = "finished"]
    /\ UNCHANGED <<webvars, fnvars, pf_products, unique_urls, image_map, pf_pc>>

\* mutant: every submitted call gets a thread of its own
WorkerStart_Unbounded(f) ==
    /\ f \in 1..Len(futures)
    /\ futures[f].pc = "pending"
    /\ \A g \in 1..(f - 1) : futures[g].pc # "pending"
    /\ futures' = [futures EXCEPT ![f].pc = "running"]
    /\ UNCHANGED <<webvars, fnvars, pf_products, unique_urls, image_map, pf_pc>>

\* a pool thread takes the oldest queued call; the pool has max_workers threads
WorkerStart(f) ==
    /\ f \in 1..Len(futures)
    /\ futures[f].pc = "pending"
    /\ \A g \in 1..(f - 1) : futures[g].pc # "pending"
    /\ Cardinality({g \in 1..Len(futures) : futures[g].pc = "running"}) < max_workers
    /\ futures' = [futures EXCEPT ![f].pc = "running"]
    /\ UNCHANGED <<webvars, fnvars, pf_products, unique_urls, image_map, pf_pc>>

\* line 127-129: as_completed hands over a finished future;
\* image_map[url] = future.result(), which raises what the call raised
PfCollect(f) ==
    /\ pf_pc = "collect"
    /\ f \in 1..Len(futures)
    /\ futures[f].pc = "finished" /\ ~futures[f].collected
    /\ futures' = [futures EXCEPT ![f].collected = TRUE]
    /\ IF futures[f].result.kind = "raised"
       THEN /\ pf_pc' = "raised"
            /\ UNCHANGED image_map
       ELSE /\ image_map' =
                  [u \in DOMAIN image_map \cup {futures[f].url} |->
                      IF u = futures[f].url THEN futures[f].result
                      ELSE image_map[u]]
            /\ UNCHANGED pf_pc
    /\ UNCHANGED <<webvars, fnvars, pf_products, unique_urls>>

\* line 131: every future was handed over; return image_map
PfReturn ==
    /\ pf_pc = "collect"
    /\ \A f \in 1..Len(futures) : futures[f].collected
    /\ pf_pc' = "returned"
    /\ UNCHANGED <<webvars, fnvars, pf_products, unique_urls, futures, image_map>>

\* ========================================================= categorize_product
\* A name is the sequence of its characters.
UpperLetters ==
    <<"A", "B", "C", "D", "E", "F", "G", "H", "I", "J", "K", "L", "M",
      "N", "O", "P", "Q", "R", "S", "T", "U", "V", "W", "X", "Y", "Z">>
LowerLetters ==
    <<"a", "b", "c", "d", "e", "f", "g", "h", "i", "j", "k", "l", "m",
      "n", "o", "p", "q", "r", "s", "t", "u", "v", "w", "x", "y", "z">>

RECURSIVE Flatten(_)
Flatten(seqs) ==
    IF seqs = <<>> THEN <<>> ELSE Head(seqs) \o Flatten(Tail(seqs))

\* in: Python's substring test
In(keyword, texto) ==
    \E k \in 0..(Len(texto) - Len(keyword)) :
        SubSeq(texto, k + 1, k + Len(keyword)) = keyword

\* str.lower(), character by character
CharLower(c) ==
    IF \E k \in 1..26 : UpperLetters[k] = c
    THEN <<LowerLetters[CHOOSE k \in 1..26 : UpperLetters[k] = c]>>
    ELSE IF c \in Ascii THEN <<c>> ELSE Unicode(c).lower
lower(texto) == Flatten([k \in 1..Len(texto) |-> CharLower(texto[k])])

\* unicodedata.normalize('NFD', c): the canonical decomposition of a character
NFD(c) == IF c \in Ascii THEN <<c>> ELSE Unicode(c).nfd

\* line 24-26: decompose, then drop every character that is not ASCII (the
\* reordering of NFD moves combining marks only, and they are dropped)
normalizar_texto(texto) ==
    SelectSeq(Flatten([k \in 1..Len(texto) |-> NFD(texto[k])]),
              LAMBDA c : c \in Ascii)

\* line 29-41: the categories dictionary, in declaration order ("Coleccion
\* Exclusiva" and "Sin categoria" stand for the accented names of the source)
categories ==
    <<      [category |-> "Camiseta Oversize",
       keywords |-> <<<<"C", "a", "m", "i", "s", "e", "t", "a">>,
                      <<"O", "v", "e", "r", "s", "i", "z", "e">>>>],
      [category |-> "Camiseta Estampado Boxy Fit Original",
       keywords |-> <<<<"C", "a", "m", "i", "s", "e", "t", "a">>,
                      <<"B", "o", "x", "y">>,
                      <<"F", "i", "t">>,
                      <<"O", "r", "i", "g", "i", "n", "a", "l">>>>],
      [category |-> "Camiseta Estampado Boxy Fit Premium",
       keywords |-> <<<<"C", "a", "m", "i", "s", "e", "t", "a">>,
                      <<"B", "o", "x", "y">>,
                      <<"F", "i", "t">>,
                      <<"P", "r", "e", "m", "i", "u", "m">>>>],
      [category |-> "Jogger",
       keywords |-> <<<<"J", "o", "g", "g", "e", "r">>>>],
      [category |-> "Hoodie Oversize",
       keywords |-> <<<<"H", "o", "o", "d", "i", "e">>,
                      <<"O", "v", "e", "r", "s", "i", "z", "e", " ", "F", "i", "t">>>>],
      [category |-> "Hoodie Oversize con Cierre",
       keywords |-> <<<<"H", "o", "o", "d", "i", "e", " ", "O", "v", "e", "r", "s", "i", "z", "e">>,
                      <<"c", "o", "n", " ", "C", "i", "e", "r", "r", "e">>>>],
      [category |-> "Pantaloneta",
       keywords |-> <<<<"P", "a", "n", "t", "a", "l", "o", "n", "e", "t", "a">>>>],
      [category |-> "Hoodie Relaxed Fit",
       keywords |-> <<<<"H", "o", "o", "d", "i", "e">>,
                      <<"R", "e", "l", "a", "x", "e", "d">>>>],
      [category |-> "Camiseta Boxy Polo",
       keywords |-> <<<<"C", "a", "m", "i", "s", "e", "t", "a">>,
                      <<"B", "o", "x", "y">>,
                      <<"P", "o", "l", "o">>>>],
      [category |-> "Coleccion Exclusiva",
       keywords |-> <<<<"T", "w", "o", "f", "o", "l", "d">>>>],
      [category |-> "Pantalones",
       keywords |-> <<<<"P", "a", "n", "t", "a", "l", "o", "n">>>>]>>

\* line 44-52: the keywords, lower-cased and normalized once
categories_normalized ==
    [k \in 1..Len(categories) |->
        [category |-> categories[k].category,
         keywords |-> [j \in 1..Len(categories[k].keywords) |->
                          normalizar_texto(lower(categories[k].keywords[j]))]]]

\* line 64: all(keyword in name_normalizado for keyword in keywords)
AllKeywordsIn(k, name_normalizado) ==
    \A j \in 1..Len(categories_normalized[k].keywords) :
        In(categories_normalized[k].keywords[j], name_normalizado)

SinCategoria == "Sin categoria"

\* line 54-67, as a function of the name
categorize_product(name) ==
    LET name_normalizado == normalizar_texto(lower(name))
        matching == {k \in 1..Len(categories_normalized) :
                        AllKeywordsIn(k, name_normalizado)}
    IN  IF matching = {} THEN SinCategoria
        ELSE categories_normalized[CHOOSE k \in matching :
                                      \A j \in matching : k <= j].category

\* product names
Names ==
    {<<>>,
     <<"G", "o", "r", "r", "a">>,
     <<"J", "o", "g", "g", "e", "r", " ", "N", "e", "g", "r", "o">>,
     <<"J", "O", "G", "G", "E", "R">>,
     <<"J", "U+00F3", "g", "g", "e", "r">>,
     <<"j", "o", "U+0301", "g", "g", "e", "r">>,
     <<"J", "U+00F8", "g", "g", "e", "r">>,
     <<"P", "a", "n", "t", "a", "l", "o", "n", "e", "t", "a", " ", "A",
       "z", "u", "l">>,
     <<"P", "a", "n", "t", "a", "l", "U+00F3", "n", " ", "C", "a", "r",
       "g", "o">>,
     <<"P", "A", "N", "T", "A", "L", "U+00D3", "N">>,
     <<"H", "o", "o", "d", "i", "e", " ", "O", "v", "e", "r", "s", "i",
       "z", "e", " ", "F", "i", "t">>,
     <<"H", "o", "o", "d", "i", "e", " ", "O", "v", "e", "r", "s", "i",
       "z", "e", " ", "F", "i", "t", " ", "c", "o", "n", " ", "C", "i", "e",
       "r", "r", "e">>,
     <<"H", "o", "o", "d", "i", "e", " ", "O", "v", "e", "r", "s", "i",
       "z", "e", " ", "c", "o", "n", " ", "C", "i", "e", "r", "r", "e">>,
     <<"C", "a", "m", "i", "s", "e", "t", "a", " ", "O", "v", "e", "r",
       "s", "i", "z", "e">>,
     <<"C", "a", "m", "i", "s", "e", "t", "a", " ", "O", "v", "e", "r",
       "s", "i", "z", "e", " ", "B", "o", "x", "y", " ", "F", "i", "t", " ",
       "O", "r", "i", "g", "i", "n", "a", "l">>,
     <<"C", "a", "m", "i", "s", "e", "t", "a", " ", "B", "o", "x", "y",
       " ", "F", "i", "t", " ", "P", "r", "e", "m", "i", "u", "m">>,
     <<"C", "a", "m", "i", "s", "e", "t", "a", " ", "P", "o", "l", "o",
       " ", "B", "o", "x", "y">>,
     <<"C", "a", "m", "i", "s", "e", "t", "a">>,
     <<"H", "o", "o", "d", "i", "e", " ", "R", "e", "l", "a", "x", "e",
       "d">>,
     <<"H", "O", "O", "D", "I", "E", " ", "R", "E", "L", "A", "X", "E",
       "D">>,
     <<"h", "o", "o", "d", "U+0131", "e", " ", "r", "e", "l", "a", "x",
       "e", "d">>,
     <<"T", "w", "o", "f", "o", "l", "d", " ", "J", "o", "g", "g", "e",
       "r">>,
     <<"P", "a", "n", "t", "_", "a", "l", "o", "n">>,
     <<"H", "o", "o", "d", "i", "e", " ", "O", "v", "e", "r", "s", "i",
       "z", "e", " ", ",", "F", "i", "t">>,
     <<"H", "O", "O", "D", "U+00CD", "E", " ", "R", "E", "L", "A", "X", "E",
       "D">>,
     <<"J", "U+00F6", "g", "g", "e", "U+0155">>,
     <<"C", "a", "m", "i", "s", "e", "t", "a", " ", "O", "v", "e", "U+0155",
       "s", "i", "z", "U+00E9">>}

CzIdle == [pc |-> "idle", name |-> <<>>, name_normalizado |-> <<>>, k |-> 0,
           result |-> ""]

\* line 60: name_normalizado = normalizar_texto(name.lower())
CzNormalize ==
    /\ cz.pc = "start"
    /\ cz' = [cz EXCEPT !.name_normalizado = normalizar_texto(lower(cz.name)),
                        !.k = 1, !.pc = "loop"]
    /\ UNCHANGED <<webvars, imgvars, ss, pg, sel>>

\* mutant: the loop goes on after a match, so the last matching category wins
CzCategory_LastWins ==
    /\ cz.pc = "loop"
    /\ cz.k <= Len(categories_normalized)
    /\ LET result == IF AllKeywordsIn(cz.k, cz.name_normalizado)
                     THEN categories_normalized[cz.k].category
                     ELSE cz.result
       IN  cz' = [cz EXCEPT
                    !.result = result,
                    !.k = @ + 1,
                    !.pc = IF cz.k = Len(categories_normalized) /\ result # ""
                           THEN "returned" ELSE "loop"]
    /\ UNCHANGED <<webvars, imgvars, ss, pg, sel>>

\* line 62-65: one turn of the loop over categories_normalized.items()
CzCategory ==
    /\ cz.pc = "loop"
    /\ cz.k <= Len(categories_normalized)
    /\ cz' = IF AllKeywordsIn(cz.k, cz.name_normalizado)
             THEN [cz EXCEPT !.result = categories_normalized[cz.k].category,
                             !.pc = "returned"]
             ELSE [cz EXCEPT !.k = @ + 1]
    /\ UNCHANGED <<webvars, imgvars, ss, pg, sel>>

\* line 67: return "Sin categoria"
CzSentinel ==
    /\ cz.pc = "loop"
    /\ cz.k > Len(categories_normalized)
    /\ cz' = [cz EXCEPT !.result = SinCategoria, !.pc = "returned"]
    /\ UNCHANGED <<webvars, imgvars, ss, pg, sel>>

\* ================================================================ _sort_sizes
\* A size label is the sequence of its characters.

\* ord(c)
CodePoint(c) ==
    IF \E k \in 1..Len(AsciiPrintable) : AsciiPrintable[k] = c
    THEN 31 + (CHOOSE k \in 1..Len(AsciiPrintable) : AsciiPrintable[k] = c)
    ELSE IF c = "\t" THEN 9
    ELSE IF c = "\n" THEN 10
    ELSE Unicode(c).ord

\* the code points of a string (SubSeq yields the tuple, evaluated once)
CodePoints(str) ==
    SubSeq([k \in 1..Len(str) |-> CodePoint(str[k])], 1, Len(str))

\* a < b on sort keys, given as sequences of integers: the numbers at the
\* first difference, or a proper prefix
KeyLess(a, b) ==
    \/ /\ Len(a) < Len(b)
       /\ \A k \in 1..Len(a) : a[k] = b[k]
    \/ \E k \in 1..Len(a) :
          /\ k <= Len(b)
          /\ \A j \in 1..(k - 1) : a[j] = b[j]
          /\ a[k] < b[k]

\* a < b on str
StrLess(a, b) == KeyLess(CodePoints(a), CodePoints(b))

\* sorted(items, key=...), keys[k] being the key of items[k], computed once
\* per item before any comparison: the sort is stable, so an item comes behind
\* the items with a smaller key and behind the earlier items with an equal key
sorted(items, keys) ==
    LET computed == SubSeq(keys, 1, Len(items))
        ahead(k) == {j \in 1..Len(items) :
                        \/ KeyLess(computed[j], computed[k])
                        \/ ~KeyLess(computed[k], computed[j]) /\ j < k}
    IN  [r \in 1..Len(items) |->
            items[CHOOSE k \in 1..Len(items) : Cardinality(ahead(k)) = r - 1]]

\* line 170
SIZE_ORDER ==
    <<<<"X", "X", "S">>,
      <<"X", "S">>,
      <<"S">>,
      <<"M">>,
      <<"L">>,
      <<"X", "L">>,
      <<"X", "X", "L">>,
      <<"X", "X", "X", "L">>>>

\* line 174: order_map = {s: i for i, s in enumerate(SIZE_ORDER)}
InOrderMap(s) == \E k \in 1..Len(SIZE_ORDER) : SIZE_ORDER[k] = s
order_map(s) == (CHOOSE k \in 1..Len(SIZE_ORDER) : SIZE_ORDER[k] = s) - 1

\* sizes in one call of _sort_sizes
MaxSizes == 3
\* the labels a product may carry
SizeLabels ==
    {<<"X", "S">>,
     <<"L">>,
     <<"Q">>,
     <<"M">>,
     <<"X", "X", "L">>,
     <<"1", "0">>,
     <<"9">>,
     <<"x", "s">>,
     <<"U+00DA", "n", "i", "c", "a">>}
\* size_counts.keys(): distinct labels, in the order the products brought them
SizeKeys ==
    UNION {{l \in [1..n -> SizeLabels] :
               \A i \in 1..n, j \in 1..n : i # j => l[i] # l[j]} : n \in 0..MaxSizes}

SsIdle == [pc |-> "idle", sizes |-> <<>>, known |-> <<>>, unknown |-> <<>>,
           result |-> <<>>]

\* mutant: the known labels are sorted as strings, without the key
SsKnown_NoKey ==
    /\ ss.pc = "start"
    /\ LET known == SelectSeq(ss.sizes, InOrderMap) IN
       ss' = [ss EXCEPT
                !.known = sorted(known, [k \in 1..Len(known) |->
                                            CodePoints(known[k])]),
                !.pc = "unknown"]
    /\ UNCHANGED <<webvars, imgvars, cz, pg, sel>>

\* line 175: known = sorted([s for s in sizes if s in order_map],
\*                          key=lambda s: order_map[s])
SsKnown ==
    /\ ss.pc = "start"
    /\ LET known == SelectSeq(ss.sizes, InOrderMap) IN
       ss' = [ss EXCEPT
                !.known = sorted(known, [k \in 1..Len(known) |->
                                            <<order_map(known[k])>>]),
                !.pc = "unknown"]
    /\ UNCHANGED <<webvars, imgvars, cz, pg, sel>>

\* line 176: unknown = sorted(s for s in sizes if s not in order_map)
SsUnknown ==
    /\ ss.pc = "unknown"
    /\ LET unknown == SelectSeq(ss.sizes, LAMBDA s : ~InOrderMap(s)) IN
       ss' = [ss EXCEPT
                !.unknown = sorted(unknown, [k \in 1..Len(unknown) |->
                                                CodePoints(unknown[k])]),
                !.pc = "return"]
    /\ UNCHANGED <<webvars, imgvars, cz, pg, sel>>

\* line 177: return known + unknown
SsReturn ==
    /\ ss.pc = "return"
    /\ ss' = [ss EXCEPT !.result = ss.known \o ss.unknown, !.pc = "returned"]
    /\ UNCHANGED <<webvars, imgvars, cz, pg, sel>>

\* ====================================================== generate_pdf_content
\* products passed to one generate_pdf_content call
MaxRender == 13
\* length of the pattern that the image outcomes of the products repeat
MaxPattern == 3

\* what becomes of a product's image in add_product_to_page: it is in
\* image_map and is drawn; it is not in image_map and download_image supplies
\* one; img.size / img.save / ImageReader raises; c.drawImage raises
Fates == {"present", "missing", "convert_fails", "draw_fails"}

\* the products of a render job: product k has sku k, and its image has the
\* fate the pattern gives it
RenderJobs ==
    UNION {{[k \in 1..n |-> [sku |-> k, fate |-> pattern[((k - 1) % m) + 1]]] :
               pattern \in [1..m -> Fates]} : n \in 0..MaxRender, m \in 1..MaxPattern}

\* a page that has its timestamp (line 301-302, 395-396) and no cell yet
NewPage == [stamp |-> TRUE, cells |-> <<>>]

PgIdle == [pc |-> "idle", products |-> <<>>, i |-> 0, pages |-> <<>>,
           page |-> NewPage, breaks |-> <<>>, result |-> None]

\* line 414-421
_draw_image_error == "Error al cargar imagen"

\* line 304-390: add_product_to_page(product, x, y), the cell it draws.
\* Everything that can fail lies inside one of the two try blocks
add_product_to_page(product, row, col) ==
    LET img_reader == IF product.fate = "convert_fails" THEN None
                      ELSE [img |-> IF product.fate = "missing"
                                    THEN "download_image" ELSE "image_map"]
        picture == IF img_reader = None THEN _draw_image_error
                   ELSE IF product.fate = "draw_fails" THEN _draw_image_error
                   ELSE img_reader.img
    IN  [sku |-> product.sku, row |-> row, col |-> col,
         background |-> TRUE, picture |-> picture, frame |-> TRUE,
         text |-> TRUE]

\* line 288-302: the canvas is opened and the timestamp drawn on the first page
PgOpen ==
    /\ pg.pc = "start"
    /\ pg' = [pg EXCEPT !.page = NewPage, !.i = 0, !.pc = "loop"]
    /\ UNCHANGED <<webvars, imgvars, cz, ss, sel>>

\* mutant: the page break does not spare the first product
PgTurn_BreakAtZero ==
    /\ pg.pc = "loop"
    /\ pg.i < Len(pg.products)
    /\ LET page_position == pg.i % 6 IN
       IF page_position = 0
       THEN pg' = [pg EXCEPT !.pages = Append(@, pg.page), !.page = NewPage,
                             !.breaks = Append(@, pg.i), !.pc = "cell"]
       ELSE pg' = [pg EXCEPT !.pc = "cell"]
    /\ UNCHANGED <<webvars, imgvars, cz, ss, sel>>

\* line 392-396: the next product; before every sixth one but the first,
\* c.showPage() and the timestamp of the new page
PgTurn ==
    /\ pg.pc = "loop"
    /\ pg.i < Len(pg.products)
    /\ LET page_position == pg.i % 6 IN
       IF page_position = 0 /\ pg.i # 0
       THEN pg' = [pg EXCEPT !.pages = Append(@, pg.page), !.page = NewPage,
                             !.breaks = Append(@, pg.i), !.pc = "cell"]
       ELSE pg' = [pg EXCEPT !.pc = "cell"]
    /\ UNCHANGED <<webvars, imgvars, cz, ss, sel>>

\* mutant: an exception of c.drawImage leaves add_product_to_page
PgCell_DrawRaises ==
    /\ pg.pc = "cell"
    /\ LET page_position == pg.i % 6
           row == page_position \div 2
           col == page_position % 2
           product == pg.products[pg.i + 1]
       IN  IF product.fate = "draw_fails"
           THEN pg' = [pg EXCEPT !.pc = "raised"]
           ELSE pg' = [pg EXCEPT
                         !.page.cells = Append(@, add_product_to_page(product, row, col)),
                         !.i = @ + 1, !.pc = "loop"]
    /\ UNCHANGED <<webvars, imgvars, cz, ss, sel>>

\* line 398-405: row and column of the product, and its cell
PgCell ==
    /\ pg.pc = "cell"
    /\ LET page_position == pg.i % 6
           row == page_position \div 2
           col == page_position % 2
           product == pg.products[pg.i + 1]
       IN  pg' = [pg EXCEPT
                    !.page.cells = Append(@, add_product_to_page(product, row, col)),
                    !.i = @ + 1, !.pc = "loop"]
    /\ UNCHANGED <<webvars, imgvars, cz, ss, sel>>

\* line 407-411: c.save() ends the page being drawn; the bytes are returned
PgSave ==
    /\ pg.pc = "loop"
    /\ pg.i = Len(pg.products)
    /\ pg' = [pg EXCEPT !.pages = Append(@, pg.page),
                        !.result = [pages |-> Append(pg.pages, pg.page)],
                        !.pc = "returned"]
    /\ UNCHANGED <<webvars, imgvars, cz, ss, sel>>

\* ================================================ generate_pdfs: one request
\* the rows the query of line 37-69 may yield (stock_int >= 1), in its order
\* (ORDER BY ID); the last two have no name
ProductPool ==
    <<      [sku |-> 1, name |-> <<"J", "o", "g", "g", "e", "r", " ", "N", "e", "g", "r", "o">>,
       color |-> <<"N", "e", "g", "r", "o">>, size |-> <<"M">>,
       thumbnail_url |-> <<"a", ".", "j", "p", "g">>],
      [sku |-> 2, name |-> <<"J", "O", "G", "G", "E", "R">>,
       color |-> <<"a", "z", "u", "l">>, size |-> <<"M">>,
       thumbnail_url |-> <<"a", "-", "1", "x", "2", ".", "j", "p", "g">>],
      [sku |-> 3, name |-> <<"P", "a", "n", "t", "a", "l", "o", "n", "e", "t", "a", " ", "A", "z", "u", "l">>,
       color |-> <<"A", "z", "u", "l">>, size |-> <<"M">>,
       thumbnail_url |-> <<"a", ".", "j", "p", "g">>],
      [sku |-> 4, name |-> <<"J", "U+00F3", "g", "g", "e", "r">>,
       color |-> <<"A", "z", "u", "l">>, size |-> <<"M">>,
       thumbnail_url |-> <<>>],
      [sku |-> 5, name |-> <<"J", "o", "g", "g", "e", "r", " ", "N", "e", "g", "r", "o">>,
       color |-> <<"R", "o", "j", "o">>, size |-> <<"S">>,
       thumbnail_url |-> <<"a", ".", "j", "p", "g">>],
      [sku |-> 6, name |-> <<"T", "w", "o", "f", "o", "l", "d", " ", "J", "o", "g", "g", "e", "r">>,
       color |-> <<"B", "l", "a", "n", "c", "o">>, size |-> <<"M">>,
       thumbnail_url |-> <<"a", ".", "j", "p", "g">>],
      [sku |-> 7, name |-> <<"J", "o", "g", "g", "e", "r", " ", "N", "e", "g", "r", "o">>,
       color |-> <<"n", "e", "g", "r", "o">>, size |-> <<"M">>,
       thumbnail_url |-> <<"a", "-", "1", "x", "2", ".", "j", "p", "g">>],
      [sku |-> 8, name |-> <<"J", "O", "G", "G", "E", "R">>,
       color |-> <<"R", "o", "j", "o">>, size |-> <<"M">>,
       thumbnail_url |-> <<>>],
      [sku |-> 9, name |-> <<"J", "o", "g", "g", "e", "r", " ", "N", "e", "g", "r", "o">>,
       color |-> <<"A", "z", "u", "l">>, size |-> <<"M">>,
       thumbnail_url |-> <<"a", ".", "j", "p", "g">>],
      [sku |-> 10, name |-> <<"G", "o", "r", "r", "a">>,
       color |-> <<"N", "e", "g", "r", "o">>, size |-> <<"M">>,
       thumbnail_url |-> <<"a", ".", "j", "p", "g">>],
      [sku |-> 11, name |-> <<>>,
       color |-> <<"N", "e", "g", "r", "o">>, size |-> <<"M">>,
       thumbnail_url |-> <<"a", ".", "j", "p", "g">>],
      [sku |-> 12, name |-> <<" ">>,
       color |-> <<"A", "z", "u", "l">>, size |-> <<"S">>,
       thumbnail_url |-> <<>>]>>

\* what the database may hold in stock when the query runs: any of the rows
\* of the pool, in the order of the pool
Databases ==
    {SelectSeq(ProductPool, LAMBDA p : p.sku \in skus) :
        skus \in SUBSET (1..Len(ProductPool))}

\* sizes.split(",")
RequestedSizes ==
    {<<(<<"M">>)>>, <<(<<"S">>), (<<"M">>)>>, <<(<<"M">>), (<<"M">>)>>}

\* str.strip(): the characters of the tables that str.isspace() holds of are
\* removed from both ends
Whitespace == {" ", "\t", "\n", "U+0085", "U+00A0"}
strip(str) ==
    LET kept == {k \in 1..Len(str) : str[k] \notin Whitespace} IN
    IF kept = {} THEN <<>>
    ELSE SubSeq(str, CHOOSE k \in kept : \A h \in kept : k <= h,
                     CHOOSE k \in kept : \A h \in kept : h <= k)

\* line 74-96: the loop over the rows of the query. A row whose name is empty
\* after strip() is skipped (the stock is at least 1 by the WHERE clause); for
\* the first row that has a name, Product(...) is called without
\* regular_price, a field of the dataclass without default (utils.py line
\* 15), and raises TypeError. The list returned is the empty one
fetch_wordpress_products(rows) ==
    IF \E k \in 1..Len(rows) : strip(rows[k].name) # <<>>
    THEN [raised |-> "TypeError", products |-> <<>>]
    ELSE [raised |-> "", products |-> <<>>]

\* the text of a sequence of characters
RECURSIVE Str(_)
Str(chars) == IF chars = <<>> THEN "" ELSE Head(chars) \o Str(Tail(chars))

\* locals of the one generate_pdfs request; rows is what the database holds,
\* documents (every pdf_content rendered) and raised (the exception that
\* ended the request) are history
SelIdle == [pc |-> "idle", category |-> "", sizes |-> <<>>, rows |-> <<>>,
            products |-> None, localtime |-> 0, all_products |-> <<>>, products_by_size |-> << >>, j |-> 1,
            all_filtered |-> <<>>, image_map |-> << >>, i |-> 1,
            documents |-> <<>>, sess |-> EmptySession, modified |-> FALSE,
            response_data |-> <<>>, raised |-> "", response |-> NoResponse]

\* the response leaves through SessionMiddleware (as Respond): a modified
\* session is saved unless the response is a 500
SelRespond(resp, locals) ==
    /\ sel' = [locals EXCEPT !.pc = "returned", !.response = resp]
    /\ session' = IF Saving(resp, locals) THEN locals.sess ELSE session

\* line 215-219, and line 101-102, 106 of get_cached_products:
\* products = cache.get(PRODUCTS_CACHE_KEY); unless it is None it is
\* returned and becomes all_products
SelGcpGet ==
    /\ sel.pc = "gcp"
    /\ LET products == cache_get(PRODUCTS_CACHE_KEY) IN
       sel' = IF products # None
              THEN [sel EXCEPT !.products = products,
                               !.all_products = products.rows,
                               !.pc = "by_size"]
              ELSE [sel EXCEPT !.pc = "gcp_fetch"]
    /\ UNCHANGED <<webvars, imgvars, cz, ss, pg>>

\* line 103: products = fetch_wordpress_products(): the query runs, which
\* may fail, and the list is built from the rows. An exception here is
\* outside the try of line 236: it leaves the view and the request ends with
\* the 500 of the framework
SelGcpFetch ==
    /\ sel.pc = "gcp_fetch"
    /\ nfetches' = nfetches + 1
    /\ \/ SelRespond(ServerError, [sel EXCEPT !.raised = "OperationalError"])
       \/ LET fetched == fetch_wordpress_products(sel.rows) IN
          IF fetched.raised # ""
          THEN SelRespond(ServerError, [sel EXCEPT !.raised = fetched.raised])
          ELSE /\ sel' = [sel EXCEPT
                            !.products = [fetch |-> nfetches + 1,
                                          rows |-> fetched.products],
                            !.pc = "gcp_set"]
               /\ UNCHANGED session
    /\ UNCHANGED <<now, ticks, cache, files, uuids, nreq, th, handoff, served,
                   invalidated, imgvars, cz, ss, pg>>

\* line 104: cache.set(PRODUCTS_CACHE_KEY, products, PRODUCTS_CACHE_TTL)
SelGcpSet ==
    /\ sel.pc = "gcp_set"
    /\ cache' = cache_set(cache, PRODUCTS_CACHE_KEY, sel.products,
                          PRODUCTS_CACHE_TTL)
    /\ sel' = [sel EXCEPT !.pc = "gcp_localtime"]
    /\ UNCHANGED <<now, ticks, session, files, uuids, nreq, nfetches, th,
                   handoff, served, invalidated, imgvars, cz, ss, pg>>

\* line 105: timezone.localtime(), the argument of the cache.set that follows
SelGcpLocaltime ==
    /\ sel.pc = "gcp_localtime"
    /\ sel' = [sel EXCEPT !.localtime = now, !.pc = "gcp_set_ts"]
    /\ UNCHANGED <<webvars, imgvars, cz, ss, pg>>

\* line 105-106, 219: cache.set(PRODUCTS_CACHE_TIMESTAMP_KEY, <the time
\* read>, TTL); return products, which becomes all_products
SelGcpSetTimestamp ==
    /\ sel.pc = "gcp_set_ts"
    /\ cache' = cache_set(cache, PRODUCTS_CACHE_TIMESTAMP_KEY,
                          [time |-> sel.localtime, fetch |-> sel.products.fetch],
                          PRODUCTS_CACHE_TTL)
    /\ sel' = [sel EXCEPT !.all_products = sel.products.rows,
                          !.pc = "by_size"]
    /\ UNCHANGED <<now, ticks, session, files, uuids, nreq, nfetches, th,
                   handoff, served, invalidated, imgvars, cz, ss, pg>>

\* line 223-227: one turn of the loop over sizes: the products of that size
\* and of the category, sorted by p.color.lower()
SelBySize ==
    /\ sel.pc = "by_size"
    /\ LET size == sel.sizes[sel.j]
           chosen == SelectSeq(sel.all_products,
                         LAMBDA p : /\ p.size = size
                                    /\ categorize_product(p.name) = sel.category)
           ordered == sorted(chosen, [k \in 1..Len(chosen) |->
                                         CodePoints(lower(chosen[k].color))])
       IN  sel' = [sel EXCEPT
                     !.products_by_size =
                         [z \in DOMAIN @ \cup {size} |->
                             IF z = size THEN ordered ELSE @[z]],
                     !.j = @ + 1,
                     !.pc = IF sel.j = Len(sel.sizes) THEN "prefetch" ELSE "by_size"]
    /\ UNCHANGED <<webvars, imgvars, cz, ss, pg>>

\* line 230-231: all_filtered, the lists of products_by_size one after the
\* other in the order the sizes were first met, and the call
\* _prefetch_images(all_filtered)
SelPrefetch ==
    /\ sel.pc = "prefetch"
    /\ pf_pc = "idle"
    /\ LET first == SelectSeq([k \in 1..Len(sel.sizes) |-> k],
                           LAMBDA k : \A h \in 1..(k - 1) :
                                          sel.sizes[h] # sel.sizes[k])
           keys == [k \in 1..Len(first) |-> sel.sizes[first[k]]]
           all_filtered ==
               Flatten([k \in 1..Len(keys) |-> sel.products_by_size[keys[k]]])
       IN  /\ sel' = [sel EXCEPT !.all_filtered = all_filtered,
                                 !.pc = "prefetching"]
           /\ pf_products' = [k \in 1..Len(all_filtered) |->
                                 all_filtered[k].thumbnail_url]
    /\ unique_urls' = <<>>
    /\ futures' = <<>>
    /\ image_map' = << >>
    /\ pf_pc' = "start"
    /\ UNCHANGED <<webvars, cz, ss, pg>>

\* line 231: _prefetch_images has returned; image_map = its result
SelPrefetched ==
    /\ sel.pc = "prefetching"
    /\ pf_pc = "returned"
    /\ sel' = [sel EXCEPT !.image_map = image_map, !.pc = "render"]
    /\ UNCHANGED <<webvars, imgvars, cz, ss, pg>>

\* line 309-311 in a request: the image of a product is the one image_map
\* has for its thumbnail_url, or the one download_image supplies when the url
\* is not a key of the map; converting or drawing it may fail
FatesOf(product, map) ==
    (IF product.thumbnail_url \in DOMAIN map THEN {"present"}
     ELSE {"missing"}) \cup {"convert_fails", "draw_fails"}

\* line 235-237: the next size: generate_pdf_content(products_by_size[size],
\* image_map) is called
SelRender ==
    /\ sel.pc = "render"
    /\ sel.i <= Len(sel.sizes)
    /\ pg.pc = "idle"
    /\ LET products == sel.products_by_size[sel.sizes[sel.i]] IN
       \E fates \in [1..Len(products) -> Fates] :
          /\ \A k \in 1..Len(products) :
                fates[k] \in FatesOf(products[k], sel.image_map)
          /\ pg' = [PgIdle EXCEPT
                      !.pc = "start",
                      !.products = [k \in 1..Len(products) |->
                                       [sku |-> products[k].sku,
                                        fate |-> fates[k]]]]
    /\ sel' = [sel EXCEPT !.pc = "rendering"]
    /\ UNCHANGED <<webvars, imgvars, cz, ss>>

\* line 258-261: generate_pdf_content raises before it returns: the request
\* ends with the 500 JSON body
SelExcept ==
    /\ sel.pc = "rendering"
    /\ pg.pc \in {"start", "loop", "cell"}
    /\ SelRespond(ServerError, [sel EXCEPT !.raised = "render"])
    /\ pg' = PgIdle
    /\ UNCHANGED <<now, ticks, cache, files, uuids, nreq, nfetches, th,
                   handoff, served, invalidated, imgvars, cz, ss>>

\* line 237-261: generate_pdf_content has returned pdf_content. A single
\* requested size returns it; otherwise a fresh uuid4 is drawn (line 246) and
\* the bytes go to a file of that name, the session key getting the uuid and
\* response_data its entry, unless open() raises (line 248: the uuid is
\* spent, no file) or f.write raises (line 249: the uuid is spent and the
\* file stays with what was written of it, which is no document); either
\* exception ends the request with the 500 JSON body. (pdf_content, the bytes
\* of a PDF, is never empty: the test of line 238 holds.)
SelCollect ==
    /\ sel.pc = "rendering"
    /\ pg.pc = "returned"
    /\ LET size == sel.sizes[sel.i]
           pdf_content == pg.result
           pdf_id == uuids + 1
           me == [sel EXCEPT !.documents =
                      Append(@, [size |-> size, pdf_content |-> pdf_content])]
       IN  IF Len(sel.sizes) = 1
           THEN /\ SelRespond([NoResponse EXCEPT !.status = 200, !.kind = "pdf",
                                                  !.pdf = pdf_content],
                              me)
                /\ UNCHANGED <<files, uuids>>
           ELSE /\ uuids' = pdf_id
                /\ \/ /\ files' = files @@ (pdf_id :> pdf_content)
                      /\ sel' = [me EXCEPT
                           !.sess = [@ EXCEPT
                                        ![pdf_key(sel.category, Str(size))] = pdf_id],
                           !.modified = TRUE,
                           !.response_data =
                               Append(@, [category |-> sel.category, size |-> size]),
                           !.i = @ + 1,
                           !.pc = IF sel.i = Len(sel.sizes) THEN "return"
                                  ELSE "render"]
                      /\ UNCHANGED session
                   \/ /\ SelRespond(ServerError, [me EXCEPT !.raised = "open"])
                      /\ UNCHANGED files
                   \/ /\ SelRespond(ServerError, [me EXCEPT !.raised = "write"])
                      /\ files' = files @@ (pdf_id :> NoDoc)
    /\ pg' = PgIdle
    /\ UNCHANGED <<now, ticks, cache, nreq, nfetches, th, handoff, served,
                   invalidated, imgvars, cz, ss>>

\* line 263: return JsonResponse({'files': response_data})
SelReturn ==
    /\ sel.pc = "return"
    /\ SelRespond([NoResponse EXCEPT !.status = 200, !.kind = "files",
                       !.files = sel.response_data], sel)
    /\ UNCHANGED <<now, ticks, cache, files, uuids, nreq, nfetches, th,
                   handoff, served, invalidated, imgvars, cz, ss, pg>>

\* ------------------------------------------------------------ specifications
WebInit ==
    /\ now = 0
    /\ ticks = 0
    /\ cache = [k \in CacheKeys |-> <<>>]
    /\ session = EmptySession
    /\ files = << >>
    /\ uuids = 0
    /\ nreq = 0
    /\ nfetches = 0
    /\ th = [t \in Threads |-> IdleThread]
    /\ handoff = [k \in Categories \X Sizes |-> [state |-> "none", doc |-> NoDoc]]
    /\ served = << >>
    /\ invalidated = 0

\* no image work going on
ImgIdle ==
    /\ pf_products = <<>>
    /\ unique_urls = <<>>
    /\ futures = <<>>
    /\ image_map = << >>
    /\ pf_pc = "idle"

\* no function call under way
FnIdle ==
    /\ cz = CzIdle
    /\ ss = SsIdle
    /\ pg = PgIdle
    /\ sel = SelIdle

Init == WebInit /\ ImgIdle /\ FnIdle

\* the steps of get_cached_products
GcpStep(t) ==
    \/ GcpGet(t) \/ GcpFetch(t) \/ GcpSet(t) \/ GcpLocaltime(t)
    \/ GcpSetTimestamp(t)

\* the catalog views: select_category, select_size and refresh_data
CacheStep(t) ==
    \/ SelectCategory(t) \/ SelectSize(t) \/ RefreshData(t) \/ GcpStep(t)
    \/ InvDelete(t) \/ InvDeleteTimestamp(t) \/ ScTimestamp(t)
    \/ SszRender(t)

\* the document views: generate_pdfs and download_pdf, and user_logout
PdfStep(t) ==
    \/ GeneratePdfs(t) \/ DownloadPdf(t) \/ GcpStep(t)
    \/ GenSize(t) \/ GenReturn(t)
    \/ DlGet(t) \/ DlExists(t) \/ DlRead(t) \/ DlRemove(t) \/ DlReturn(t)
    \/ UserLogout(t) \/ LoFlush(t)

\* catalog requests served concurrently by the request threads
Next == Tick \/ \E t \in Threads : CacheStep(t)
Spec == Init /\ [][Next]_vars

\* catalog requests served one after the other
SeqNext == Tick \/ CacheStep(1)
SeqSpec == Init /\ [][SeqNext]_vars

\* document requests of one session served concurrently
PdfNext == \E t \in Threads : PdfStep(t)
PdfSpec == Init /\ [][PdfNext]_vars

\* document requests of one session served one after the other
SeqPdfNext == PdfStep(1)
SeqPdfSpec == Init /\ [][SeqPdfNext]_vars

\* The state right after one GET /generate_pdfs/Jogger/S,M/ was served from
\* start-up, the query having found no row in stock (SeqPdfSpec reaches
\* exactly this state): two documents wait in the temp directory under the
\* tokens the session holds
AfterGenerate ==
    LET rows == <<>>
        fetched == [fetch |-> 1, rows |-> rows]
        stored == [k \in CacheKeys |->
                     IF k = PRODUCTS_CACHE_KEY
                     THEN <<[val |-> fetched, exp |-> PRODUCTS_CACHE_TTL, at |-> 0]>>
                     ELSE <<[val |-> [time |-> 0, fetch |-> 1],
                             exp |-> PRODUCTS_CACHE_TTL, at |-> 0]>>]
        listed == <<[category |-> "Jogger", size |-> "S"],
                    [category |-> "Jogger", size |-> "M"]>>
    IN
    /\ now = 0
    /\ ticks = 0
    /\ cache = stored
    /\ session = [k \in PdfKeys |->
                     IF k = pdf_key("Jogger", "S") THEN 1
                     ELSE IF k = pdf_key("Jogger", "M") THEN 2 ELSE 0]
    /\ files = (1 :> Document("Jogger", "S", fetched))
                 @@ (2 :> Document("Jogger", "M", fetched))
    /\ uuids = 2
    /\ nreq = 1
    /\ nfetches = 1
    /\ th = [t \in Threads |->
               IF t = 1
               THEN [IdleThread EXCEPT
                       !.pc = "done", !.view = "generate_pdfs",
                       !.category = "Jogger", !.sizes = <<"S", "M">>,
                       !.products = fetched, !.fetched = 1, !.wrote = 2,
                       !.modified = TRUE, !.made = {1, 2},
                       !.response = [NoResponse EXCEPT !.status = 200,
                                        !.kind = "files", !.files = listed]]
               ELSE IdleThread]
    /\ handoff = [k \in Categories \X Sizes |->
                    IF k[1] = "Jogger" /\ k[2] \in {"S", "M"}
                    THEN [state |-> "ready", doc |-> Document(k[1], k[2], fetched)]
                    ELSE [state |-> "none", doc |-> NoDoc]]
    /\ served = << >>
    /\ invalidated = 0
    /\ ImgIdle
    /\ FnIdle

\* the steps of download_pdf
DownloadStep(t) ==
    \/ DownloadPdf(t)
    \/ DlGet(t) \/ DlExists(t) \/ DlRead(t) \/ DlRemove(t) \/ DlReturn(t)
    \/ UserLogout(t) \/ LoFlush(t)

\* download_pdf requests of one session served concurrently, after a
\* multi-size generate_pdfs
DownloadNext == \E t \in Threads : DownloadStep(t)
DownloadSpec == AfterGenerate /\ [][DownloadNext]_vars

\* download_image(url) called directly (as line 311 does) with any URL
ImageInit ==
    /\ WebInit
    /\ FnIdle
    /\ pf_products = <<>>
    /\ unique_urls = <<>>
    /\ image_map = << >>
    /\ pf_pc = "idle"
    /\ \E url \in Urls : futures = <<Call(url)>>

ImageNext == \E f \in 1..Len(futures) : DiAttempt(f) \/ DiPlaceholder(f)
ImageSpec == ImageInit /\ [][ImageNext]_vars

\* _prefetch_images(products) for any short list of products
PrefetchInit ==
    /\ WebInit
    /\ FnIdle
    /\ \E n \in 0..MaxProducts : pf_products \in [1..n -> ThumbnailUrls]
    /\ unique_urls = <<>>
    /\ futures = <<>>
    /\ image_map = << >>
    /\ pf_pc = "start"

PrefetchNext ==
    \/ PfUniqueUrls \/ PfSubmit \/ PfReturn
    \/ \E f \in 1..Len(futures) :
           WorkerStart(f) \/ DiAttempt(f) \/ DiPlaceholder(f) \/ PfCollect(f)
PrefetchSpec == PrefetchInit /\ [][PrefetchNext]_vars

\* categorize_product(name) for any of the names
ClassifyInit ==
    /\ WebInit
    /\ ImgIdle
    /\ \E name \in Names : cz = [CzIdle EXCEPT !.pc = "start", !.name = name]
    /\ ss = SsIdle
    /\ pg = PgIdle
    /\ sel = SelIdle

ClassifyNext == CzNormalize \/ CzCategory \/ CzSentinel
ClassifySpec == ClassifyInit /\ [][ClassifyNext]_vars

\* _sort_sizes(sizes) for any few distinct labels
SortInit ==
    /\ WebInit
    /\ ImgIdle
    /\ cz = CzIdle
    /\ \E sizes \in SizeKeys : ss = [SsIdle EXCEPT !.pc = "start", !.sizes = sizes]
    /\ pg = PgIdle
    /\ sel = SelIdle

SortNext == SsKnown \/ SsUnknown \/ SsReturn
SortSpec == SortInit /\ [][SortNext]_vars

\* generate_pdf_content(products, image_map) for any render job
RenderInit ==
    /\ WebInit
    /\ ImgIdle
    /\ cz = CzIdle
    /\ ss = SsIdle
    /\ \E products \in RenderJobs :
          pg = [PgIdle EXCEPT !.pc = "start", !.products = products]
    /\ sel = SelIdle

RenderNext == PgOpen \/ PgTurn \/ PgCell \/ PgSave
RenderSpec == RenderInit /\ [][RenderNext]_vars

\* one generate_pdfs request for the category Jogger, from start-up, for any
\* content of the database and any of the size lists
SelectInit ==
    /\ WebInit
    /\ ImgIdle
    /\ cz = CzIdle
    /\ ss = SsIdle
    /\ pg = PgIdle
    /\ \E rows \in Databases, sizes \in RequestedSizes :
          sel = [SelIdle EXCEPT !.pc = "gcp", !.category = "Jogger",
                                !.sizes = sizes, !.rows = rows]

\* every step of the request, those of _prefetch_images, download_image and
\* generate_pdf_content included
GeneratePdfsNext ==
    \/ Tick
    \/ SelGcpGet \/ SelGcpFetch \/ SelGcpSet \/ SelGcpLocaltime
    \/ SelGcpSetTimestamp
    \/ SelBySize \/ SelPrefetch \/ SelPrefetched \/ SelRender
    \/ SelExcept \/ SelCollect \/ SelReturn
    \/ PfUniqueUrls \/ PfSubmit \/ PfReturn
    \/ \E f \in 1..Len(futures) :
           WorkerStart(f) \/ DiAttempt(f) \/ DiPlaceholder(f) \/ PfCollect(f)
    \/ PgOpen \/ PgTurn \/ PgCell \/ PgSave
GeneratePdfsSpec == SelectInit /\ [][GeneratePdfsNext]_vars

\* the steps of the request that occur: the list the request works on is the
\* empty one, so no image is fetched and no product is drawn
SelectNext ==
    \/ Tick
    \/ SelGcpGet \/ SelGcpFetch \/ SelGcpSet \/ SelGcpLocaltime
    \/ SelGcpSetTimestamp
    \/ SelBySize \/ SelPrefetch \/ SelPrefetched \/ SelRender
    \/ SelExcept \/ SelCollect \/ SelReturn
    \/ PfUniqueUrls \/ PfSubmit \/ PfReturn
    \/ PgOpen \/ PgSave
SelectSpec == SelectInit /\ [][SelectNext]_vars

\* the smallest render job that asks more of the pool than it has threads:
\* max_workers + 1 distinct thumbnail urls
SaturatingJob ==
    [k \in 1..(max_workers + 1) |-> <<LowerLetters[k], ".", "j", "p", "g">>]

\* _prefetch_images from line 125 on, for the saturating job
FanOutInit ==
    /\ WebInit
    /\ FnIdle
    /\ pf_products = SaturatingJob
    /\ unique_urls = SaturatingJob
    /\ futures = <<>>
    /\ image_map = << >>
    /\ pf_pc = "submit"

FanOutNext ==
    \/ PfSubmit \/ PfReturn
    \/ \E f \in 1..Len(futures) :
           WorkerStart(f) \/ DownloadImage(f) \/ PfCollect(f)
FanOutSpec == FanOutInit /\ [][FanOutNext]_vars

\* _prefetch_images with threads that keep running and fetch attempts that
\* end: requests.get has timeout=10 (utils.py line 104), the pool threads and
\* the calling thread are scheduled as long as they have a step to take
PrefetchLiveSpec ==
    /\ PrefetchInit
    /\ [][PrefetchNext]_vars
    /\ WF_vars(PfUniqueUrls) /\ WF_vars(PfSubmit) /\ WF_vars(PfReturn)
    /\ \A f \in 1..MaxProducts :
          /\ WF_vars(WorkerStart(f)) /\ WF_vars(DiAttempt(f))
          /\ WF_vars(DiPlaceholder(f)) /\ WF_vars(PfCollect(f))

\* ===================================================================== claims

\* --------------------------------------------------------------------- C1
\* C1: single-flight. Calls of get_cached_products that overlap one cache miss
\* (each has read None and none of them has stored a result yet) invoke
\* fetch_wordpress_products once between them.
InMiss(t) == th[t].pc \in {"gcp_fetch", "gcp_set"}
C1_SingleFlight ==
    \A t \in Threads, u \in Threads :
        (t # u /\ InMiss(t) /\ InMiss(u)) => th[t].fetched + th[u].fetched <= 1

\* --------------------------------------------------------------------- C4
\* C4: when _invalidate_cache has returned, the product list key and the
\* timestamp key are both absent, and the get_cached_products call that
\* follows it (nothing in between) misses and invokes the source once,
\* whatever the age of the entry that was cached before.
C4_InvalidateThenGet ==
    LET me == th[1] IN
    /\ (me.view = "refresh_data" /\ me.pc = "done")
           => \A k \in CacheKeys : cache[k] = <<>>
    /\ (me.view = "select_category" /\ me.prev = "refresh_data"
        /\ me.pc \notin {"gcp_get", "gcp_fetch"})
           => (~me.hit /\ me.fetched = 1)

\* an invalidate met an entry that was still fresh when the next get looked,
\* and that get fetched
C4_Witness ==
    LET me == th[1] IN
    /\ me.view = "select_category" /\ me.prev = "refresh_data"
    /\ me.pc = "sc_timestamp" /\ me.fetched = 1
    /\ me.prev_cache # <<>>
    /\ me.seen_at - me.prev_cache[1].at < PRODUCTS_CACHE_TTL

\* --------------------------------------------------------------------- C5
\* C5: when get_cached_products returns, then: if cache.get met a product list
\* younger than 300 seconds, that list is returned, the source was not invoked
\* and the cache is as it was; otherwise the source was invoked once, its
\* result is returned and is what the product list key holds, and the
\* timestamp key holds, for that same fetch, a time read between the store of
\* the list and its own store. Lists include the empty list.
C5_TtlBehaviour ==
    LET me == th[1]
        fresh == /\ me.seen # <<>>
                 /\ me.seen_at - me.seen[1].at < PRODUCTS_CACHE_TTL
        list_entry == cache[PRODUCTS_CACHE_KEY]
        time_entry == cache[PRODUCTS_CACHE_TIMESTAMP_KEY]
    IN  (me.view = "select_category" /\ me.pc = "sc_timestamp") =>
            IF fresh
            THEN /\ me.products = me.seen[1].val
                 /\ me.fetched = 0
                 /\ me.wrote = 0
                 /\ cache = me.start_cache
            ELSE /\ me.fetched = 1
                 /\ me.products # None
                 /\ list_entry # <<>> /\ list_entry[1].val = me.products
                 /\ list_entry[1].exp = list_entry[1].at + PRODUCTS_CACHE_TTL
                 /\ time_entry # <<>>
                 /\ time_entry[1].val.fetch = me.products.fetch
                 /\ time_entry[1].val.time >= list_entry[1].at
                 /\ time_entry[1].val.time <= time_entry[1].at

\* an empty list cached 299 seconds earlier is served without a fetch
C5_Witness ==
    LET me == th[1] IN
    /\ me.view = "select_category" /\ me.pc = "sc_timestamp"
    /\ me.hit /\ me.fetched = 0
    /\ me.products.rows = <<>>
    /\ me.seen_at - me.seen[1].at = PRODUCTS_CACHE_TTL - 1

\* --------------------------------------------------------------------- C6
\* C6: when fetch_wordpress_products raises inside get_cached_products, the
\* request ends with the error, the source was invoked once by that call, the
\* call wrote no cache key and the cache is as it was when the call began.
C6_FetchFailure ==
    LET me == th[1] IN
    (me.view = "select_category" /\ me.pc = "done"
     /\ me.fetched >= 1 /\ me.products = None) =>
        /\ me.response.status = 500
        /\ me.fetched = 1
        /\ me.wrote = 0
        /\ cache = me.start_cache

\* the fetch raised while an expired entry was still stored
C6_Witness ==
    LET me == th[1] IN
    /\ me.view = "select_category" /\ me.pc = "done"
    /\ me.fetched = 1 /\ me.products = None
    /\ me.response.status = 500
    /\ me.start_cache[PRODUCTS_CACHE_KEY] # <<>>
    /\ me.start_cache[PRODUCTS_CACHE_TIMESTAMP_KEY] # <<>>

\* --------------------------------------------------------------------- C2
\* C2: requests served one after the other. A download_pdf for (category,
\* size) that comes when a completed multi-size generate_pdfs has handed a
\* document for (category, size) to the session and no download has returned
\* it yet answers 200 with exactly that document; one that comes after a
\* download has returned it (and no generate since) answers 404.
C2_OneShot ==
    [][(th[1].view = "download_pdf" /\ th[1].pc # "done" /\ th'[1].pc = "done")
        => LET h == handoff[<<th[1].category, th[1].sizes[1]>>]
               r == th'[1].response
           IN  /\ h.state = "ready" =>
                     /\ r.status = 200
                     /\ r.pdf = h.doc
                     /\ r.pdf.category = th[1].category
                     /\ r.pdf.size = th[1].sizes[1]
               /\ h.state = "taken" => r.status = 404]_vars

\* --------------------------------------------------------------------- C3
\* C3: in every interleaving of download_pdf requests, the bytes stored under
\* one token are returned by at most one request (counting the requests that
\* have removed the file and are about to return).
Returning(tok) == {t \in Threads : th[t].pc = "dl_return" /\ th[t].pdf_id = tok}
C3_AtMostOnce ==
    \A tok \in 1..uuids :
        (IF tok \in DOMAIN served THEN served[tok] ELSE 0)
            + Cardinality(Returning(tok)) <= 1

\* two requests carried the same token past the exists-check; one returned the
\* bytes and the other did not
C3_Witness ==
    \E t \in Threads, u \in Threads :
        /\ t # u
        /\ th[t].view = "download_pdf" /\ th[u].view = "download_pdf"
        /\ th[t].pdf_id # 0 /\ th[t].pdf_id = th[u].pdf_id
        /\ th[t].pc = "done" /\ th[t].response.status = 200
        /\ th[u].pc = "done" /\ th[u].response.status = 500

\* --------------------------------------------------------------------- C7
\* C7: requests served one after the other. A generate_pdfs with one
\* requested size writes no temp file and sets no session key, whatever its
\* outcome, and when it renders it returns the document itself; a
\* generate_pdfs with k > 1 requested sizes that returns its file list has
\* written one file per requested size under a fresh token, the session maps
\* each requested (category, size) to such a token whose file holds that
\* size's document, and the list has one entry per requested size.
C7_StoreOnlyForMultiSize ==
    LET me == th[1]
        k == Len(me.sizes)
        r == me.response
    IN  (me.view = "generate_pdfs" /\ me.pc = "done") =>
        /\ k = 1 =>
              /\ me.made = {} /\ ~me.modified
              /\ DOMAIN files = me.start_files
              /\ session = me.start_session
              /\ r.status = 200 =>
                    /\ r.kind = "pdf"
                    /\ r.pdf = Document(me.category, me.sizes[1], me.products)
        /\ (k > 1 /\ r.status = 200) =>
              /\ r.kind = "files"
              /\ Len(r.files) = k
              /\ Cardinality(me.made) = k
              /\ me.made \cap me.start_files = {}
              /\ me.made \subseteq DOMAIN files
              /\ \A j \in 1..k :
                    LET tok == session[pdf_key(me.category, me.sizes[j])] IN
                    /\ r.files[j] = [category |-> me.category, size |-> me.sizes[j]]
                    /\ tok \in me.made
                    /\ files[tok] = Document(me.category, me.sizes[j], me.products)

\* a two-size generate returned its list while an earlier single-size
\* generate had left the store empty
C7_Witness ==
    LET me == th[1] IN
    /\ me.view = "generate_pdfs" /\ me.pc = "done"
    /\ me.prev = "generate_pdfs"
    /\ me.sizes = <<"S", "M">> /\ me.response.status = 200
    /\ me.start_files = {}

\* --------------------------------------------------------------------- C8
\* C8: every download_pdf that does not return a document ends with the
\* not-found outcome, also when it loses a race for the token: no download_pdf
\* ends with an internal error. (A request whose session was deleted under
\* way had its token and is not a miss.)
C8_MissIsNotFound ==
    \A t \in Threads :
        (th[t].view = "download_pdf" /\ th[t].pc = "done")
            => \/ th[t].response.status \in {200, 404}
               \/ th[t].response = BadRequest

\* --------------------------------------------------------------------- C9
\* C9: _prefetch_images submits at most one download_image call per distinct
\* non-empty thumbnail_url of its products and none for anything else, it does
\* not raise, and the mapping it returns has exactly the distinct non-empty
\* thumbnail urls as keys, each with the result of its call (an image or the
\* placeholder).
C9_DedupAndCover ==
    LET wanted == {pf_products[i] : i \in 1..Len(pf_products)} \ {EmptyUrl} IN
    /\ \A f \in 1..Len(futures) :
          /\ futures[f].url \in wanted
          /\ \A g \in 1..Len(futures) : futures[g].url = futures[f].url => g = f
    /\ pf_pc # "raised"
    /\ pf_pc = "returned" =>
          /\ DOMAIN image_map = wanted
          /\ \A f \in 1..Len(futures) :
                /\ image_map[futures[f].url] = futures[f].result
                /\ futures[f].result.kind \in {"image", "placeholder"}

\* the products repeat one url and one has none; both fetches of one url
\* failed, and the mapping came back with the placeholder for it
C9_Witness ==
    /\ pf_pc = "returned"
    /\ \E i \in 1..Len(pf_products), j \in 1..Len(pf_products),
          k \in 1..Len(pf_products) :
          /\ i # j /\ pf_products[i] = pf_products[j]
          /\ pf_products[i] # EmptyUrl
          /\ pf_products[k] = EmptyUrl
          /\ image_map[pf_products[i]] = Placeholder

\* --------------------------------------------------------------------- C10
\* C10: a download_image(url) call tries the optimized URL first and the
\* original URL second and nothing else, at most two attempts; it returns the
\* image of the first attempt that succeeds, after which it tries no more;
\* when both attempts fail, for whatever reason, it returns the 1070x1536
\* placeholder; it never raises, for any URL, the empty string included.
C10_FallThrough ==
    \A f \in 1..Len(futures) :
        LET call == futures[f]
            n == Len(call.tried)
            optimized == get_wordpress_optimized_url(call.url)
        IN  /\ n <= 2
            /\ n >= 1 => call.tried[1].url = optimized
            /\ n = 2 => (call.tried[2].url = call.url
                         /\ call.tried[1].outcome # "image")
            /\ call.result.kind # "raised"
            /\ call.pc = "finished" =>
                  /\ n >= 1
                  /\ IF call.tried[n].outcome = "image"
                     THEN call.result.kind = "image"
                          /\ call.result.from = call.tried[n].url
                     ELSE /\ n = 2
                          /\ call.result.kind = "placeholder"
                          /\ call.result.size = <<1070, 1536>>

\* the optimized URL, distinct from the original, failed in the request, the
\* original failed in decoding, and the placeholder came back
C10_Witness ==
    \E f \in 1..Len(futures) :
        /\ futures[f].pc = "finished"
        /\ futures[f].result = Placeholder
        /\ Len(futures[f].tried) = 2
        /\ futures[f].tried[1].url # futures[f].tried[2].url
        /\ futures[f].tried[1].outcome = "request_error"
        /\ futures[f].tried[2].outcome = "other_error"

\* --------------------------------------------------------------------- C11
\* C11: for a URL that already carries the sized suffix
\* -<digits>x<digits>.<jpg|jpeg|png|webp>, get_wordpress_optimized_url returns
\* the URL itself, so every attempt of download_image on it requests exactly
\* that URL; and on every URL a second application of
\* get_wordpress_optimized_url changes nothing.
C11_SizedUnchanged ==
    \A f \in 1..Len(futures) :
        LET url == futures[f].url
            once == get_wordpress_optimized_url(url)
        IN
        /\ get_wordpress_optimized_url(once) = once
        /\ DimensionMatch(url) =>
              /\ once = url
              /\ \A a \in 1..Len(futures[f].tried) : futures[f].tried[a].url = url

\* a call on a sized URL has made both its attempts and ended with the default
\* image
C11_Witness ==
    \E f \in 1..Len(futures) :
        /\ DimensionMatch(futures[f].url)
        /\ Len(futures[f].tried) = 2
        /\ futures[f].pc = "finished"
        /\ futures[f].result = Placeholder

\* --------------------------------------------------------------------- C12
\* whether every keyword of the k-th declared category, lower-cased and
\* normalized, is a substring of the lower-cased, normalized name
HasAllKeywords(k, name) ==
    \A j \in 1..Len(categories[k].keywords) :
        In(normalizar_texto(lower(categories[k].keywords[j])),
           normalizar_texto(lower(name)))

\* C12: categorize_product(name) returns the first category, in declaration
\* order, all of whose normalized keywords are substrings of the normalized
\* lower-cased name, and the sentinel exactly when no category has all its
\* keywords present; a name that several categories match gets the one
\* declared first.
C12_FirstDeclaredMatch ==
    cz.pc = "returned" =>
        /\ cz.result = SinCategoria <=>
              \A k \in 1..Len(categories) : ~HasAllKeywords(k, cz.name)
        /\ \A k \in 1..Len(categories) :
              (/\ HasAllKeywords(k, cz.name)
               /\ \A j \in 1..(k - 1) : ~HasAllKeywords(j, cz.name))
              => cz.result = categories[k].category

\* a name that both Hoodie Oversize and Hoodie Oversize con Cierre match was
\* given the earlier one
C12_Witness ==
    /\ cz.pc = "returned"
    /\ cz.result = "Hoodie Oversize"
    /\ \E k \in 1..Len(categories) :
          /\ categories[k].category = "Hoodie Oversize con Cierre"
          /\ HasAllKeywords(k, cz.name)

\* --------------------------------------------------------------------- C13
\* the letter a character stands for once its case and its diacritical mark
\* are set aside (nothing for a mark on its own)
PlainLetter(c) ==
    CASE c = "U+00F8" -> <<"o">>
      [] c = "U+0131" -> <<"i">>
      [] OTHER -> LET small == CharLower(c) IN
                  SelectSeq(Flatten([k \in 1..Len(small) |-> NFD(small[k])]),
                            LAMBDA d : d \in Ascii)
\* two names that differ in letter case and diacritical marks only
SameLetters(a, b) ==
    Flatten([k \in 1..Len(a) |-> PlainLetter(a[k])])
        = Flatten([k \in 1..Len(b) |-> PlainLetter(b[k])])

\* C13: classification is insensitive to diacritics and letter case: a name
\* with diacritical marks added to or removed from its letters, or with its
\* letter case changed, gets the same category as the plain name.
C13_DiacriticAndCaseInsensitive ==
    cz.pc = "returned" =>
        \A other \in Names :
            SameLetters(other, cz.name) => categorize_product(other) = cz.result

\* --------------------------------------------------------------------- C14
\* C14: _sort_sizes returns a permutation of its input set in which the labels
\* of SIZE_ORDER come first, in the order of SIZE_ORDER, followed by all other
\* labels in ascending lexicographic order; {L, XS, Q} yields [XS, L, Q].
C14_KnownThenLexicographic ==
    ss.pc = "returned" =>
        LET r == ss.result
            input == {ss.sizes[k] : k \in 1..Len(ss.sizes)}
        IN
        /\ Len(r) = Cardinality(input)
        /\ {r[k] : k \in 1..Len(r)} = input
        /\ \A i \in 1..Len(r), j \in 1..Len(r) :
              i < j =>
                /\ InOrderMap(r[j]) => InOrderMap(r[i])
                /\ (InOrderMap(r[i]) /\ InOrderMap(r[j]))
                      => order_map(r[i]) < order_map(r[j])
                /\ (~InOrderMap(r[i]) /\ ~InOrderMap(r[j])) => StrLess(r[i], r[j])
        /\ input = {<<"L">>, <<"X", "S">>, <<"Q">>}
              => r = <<(<<"X", "S">>), (<<"L">>), (<<"Q">>)>>

\* the call on L, XS, Q has returned XS, L, Q
C14_Witness ==
    /\ ss.pc = "returned"
    /\ ss.sizes = <<(<<"L">>), (<<"X", "S">>), (<<"Q">>)>>
    /\ ss.result = <<(<<"X", "S">>), (<<"L">>), (<<"Q">>)>>

\* --------------------------------------------------------------------- C15
\* C15: for N >= 1 products, product i (counted from 0) is drawn on page
\* i div 6 at row (i mod 6) div 2 and column (i mod 6) mod 2; a page break is
\* emitted exactly before each product i with i > 0 and i mod 6 = 0; the
\* document has ceil(N/6) pages and no two products share a cell of a page;
\* 13 products give pages of 6, 6 and 1.
C15_Pagination ==
    (pg.pc = "returned" /\ Len(pg.products) >= 1) =>
        LET N == Len(pg.products)
            pages == pg.result.pages
        IN
        /\ Len(pages) = (N + 5) \div 6
        /\ \A i \in 0..(N - 1) :
              \E c \in 1..Len(pages[(i \div 6) + 1].cells) :
                  LET cell == pages[(i \div 6) + 1].cells[c] IN
                  /\ cell.sku = pg.products[i + 1].sku
                  /\ cell.row = (i % 6) \div 2
                  /\ cell.col = (i % 6) % 2
        /\ {pg.breaks[b] : b \in 1..Len(pg.breaks)}
              = {i \in 1..(N - 1) : i % 6 = 0}
        /\ Len(pg.breaks) = (N - 1) \div 6
        /\ \A p \in 1..Len(pages) :
              \A c \in 1..Len(pages[p].cells), d \in 1..Len(pages[p].cells) :
                  c # d => <<pages[p].cells[c].row, pages[p].cells[c].col>>
                             # <<pages[p].cells[d].row, pages[p].cells[d].col>>
        /\ N = 13 => [p \in 1..Len(pages) |-> Len(pages[p].cells)] = <<6, 6, 1>>

\* thirteen products were rendered, with page breaks before products 6 and 12
C15_Witness ==
    /\ pg.pc = "returned"
    /\ Len(pg.products) = 13
    /\ pg.breaks = <<6, 12>>
    /\ Len(pg.result.pages) = 3

\* --------------------------------------------------------------------- C16
\* the cells of a document, page after page
CellsOf(document) ==
    Flatten([p \in 1..Len(document.pages) |-> document.pages[p].cells])
FailingFates == {"convert_fails", "draw_fails"}

\* C16: whatever becomes of the images (present, missing from the map,
\* conversion failing, drawing failing), generate_pdf_content does not raise
\* and returns a document in which every product has its cell with
\* background, frame and text block; the cell of a product whose image failed
\* shows the error placeholder, and the cells of the other products show
\* their image.
C16_PerCellDegradation ==
    /\ pg.pc # "raised"
    /\ pg.pc = "returned" =>
          LET cells == CellsOf(pg.result) IN
          /\ Len(cells) = Len(pg.products)
          /\ \A k \in 1..Len(pg.products) :
                /\ cells[k].sku = pg.products[k].sku
                /\ cells[k].background /\ cells[k].frame /\ cells[k].text
                /\ cells[k].picture = _draw_image_error
                      <=> pg.products[k].fate \in FailingFates
                /\ pg.products[k].fate = "present"
                      => cells[k].picture = "image_map"
                /\ pg.products[k].fate = "missing"
                      => cells[k].picture = "download_image"

\* a document of two pages was returned in which a drawing failure and a
\* conversion failure are followed by a product whose image was drawn
C16_Witness ==
    /\ pg.pc = "returned"
    /\ Len(pg.result.pages) = 2
    /\ \E k \in 1..Len(pg.products), j \in 1..Len(pg.products),
          m \in 1..Len(pg.products) :
          /\ pg.products[k].fate = "draw_fails"
          /\ pg.products[j].fate = "convert_fails"
          /\ k < m /\ j < m
          /\ CellsOf(pg.result)[k].picture = _draw_image_error
          /\ CellsOf(pg.result)[m].picture = "image_map"

\* --------------------------------------------------------------------- C17
\* the positions in all_products of the products of the requested category
\* and of the given size
Matching(size) ==
    {k \in 1..Len(sel.all_products) :
        /\ sel.all_products[k].size = size
        /\ categorize_product(sel.all_products[k].name) = sel.category}
\* the position in all_products of the product with the given sku
PositionOf(sku) ==
    CHOOSE k \in 1..Len(sel.all_products) : sel.all_products[k].sku = sku
\* the products the database holds in stock of the requested category and of
\* the given size, by sku
InStock(size) ==
    {sel.rows[k].sku : k \in {h \in 1..Len(sel.rows) :
        /\ sel.rows[h].size = size
        /\ categorize_product(strip(sel.rows[h].name)) = sel.category}}
\* the database, the renderer or the file system failed
Failures == {"OperationalError", "render", "open", "write"}

\* C17: for each requested size, the products rendered are exactly the cached
\* products of that size whose categorize_product(name) is the requested
\* category, in ascending order of the lower-cased color, products of equal
\* color in the order of the source list, and a request that returns its
\* result has rendered each requested size; 7 matching products give one
\* document of 2 pages in that order: a request for one size of which 7
\* matching products are in stock returns, unless the database, the renderer
\* or the file system fails, one document of 2 pages with these products.
C17_SelectionAndOrder ==
    /\ \A d \in 1..Len(sel.documents) :
          LET size == sel.documents[d].size
              cells == CellsOf(sel.documents[d].pdf_content)
              at(c) == PositionOf(cells[c].sku)
              color(c) == lower(sel.all_products[at(c)].color)
          IN
          /\ Len(cells) = Cardinality(Matching(size))
          /\ {cells[c].sku : c \in 1..Len(cells)}
                = {sel.all_products[k].sku : k \in Matching(size)}
          /\ \A a \in 1..Len(cells), b \in 1..Len(cells) :
                a < b =>
                  /\ ~StrLess(color(b), color(a))
                  /\ color(a) = color(b) => at(a) < at(b)
    /\ (sel.pc = "returned" /\ sel.response.status = 200) =>
          /\ Len(sel.documents) = Len(sel.sizes)
          /\ \A d \in 1..Len(sel.sizes) : sel.documents[d].size = sel.sizes[d]
    /\ (/\ sel.pc = "returned"
        /\ Len(sel.sizes) = 1
        /\ Cardinality(InStock(sel.sizes[1])) = 7
        /\ sel.raised \notin Failures) =>
          /\ sel.response.status = 200
          /\ Len(sel.documents) = 1
          /\ {c.sku : c \in {CellsOf(sel.documents[1].pdf_content)[k] :
                   k \in 1..Len(CellsOf(sel.documents[1].pdf_content))}}
                = InStock(sel.sizes[1])
          /\ Len(sel.documents[1].pdf_content.pages) = 2

\* --------------------------------------------------------------------- C18
\* the download_image invocations in progress
InProgress == {f \in 1..Len(futures) : futures[f].pc = "running"}

\* C18: at every moment of a prefetch at most 10 download_image invocations
\* are in progress, however many distinct urls the render job has.
C18_BoundedFanOut == Cardinality(InProgress) <= 10

\* ten invocations are in progress while an eleventh url waits for a thread
C18_Witness ==
    /\ Cardinality(InProgress) = 10
    /\ \E f \in 1..Len(futures) : futures[f].pc = "pending"

\* --------------------------------------------------------------------- C19
\* C19: when every fetch attempt ends, _prefetch_images eventually returns,
\* for every set of urls and every combination of failures, and it returns
\* only after every download_image it dispatched has finished and its result
\* was collected.
C19_PrefetchCompletes ==
    /\ <>(pf_pc = "returned")
    /\ [](pf_pc = "returned" =>
            /\ Len(futures) = Len(unique_urls)
            /\ \A f \in 1..Len(futures) :
                  /\ futures[f].pc = "finished"
                  /\ futures[f].url \in DOMAIN image_map)

\* the prefetch has returned although one url failed on both attempts, with
\* the image of another url collected
C19_Witness ==
    /\ pf_pc = "returned"
    /\ \E f \in 1..Len(futures), g \in 1..Len(futures) :
          /\ futures[f].result = Placeholder
          /\ Len(futures[f].tried) = 2
          /\ futures[g].result.kind = "image"
          /\ image_map[futures[g].url].kind = "image"

\* --------------------------------------------------------------------- C20
\* C20: no orphaned artifacts: after any sequence of generate_pdfs and
\* download_pdf requests of one session (a size list that repeats a size
\* included), every document file in the temp directory is the token of some
\* session key, so that a download can still return and delete it. Stated for
\* the files of a generate_pdfs that has returned its file list.
C20_NoOrphans ==
    \A t \in Threads :
        (/\ th[t].pc = "done"
         /\ th[t].view = "generate_pdfs"
         /\ th[t].response.kind = "files")
        => \A pdf_id \in th[t].made \cap DOMAIN files :
               \E k \in PdfKeys : session[k] = pdf_id

\* --------------------------------------------------------------------- C21
\* C21: invalidation is not undone by a fetch in flight. When a
\* get_cached_products call has returned a product list to a request that
\* started after an _invalidate_cache call had returned, the fetch the list
\* comes from began after that _invalidate_cache call returned.
Obtained(t) ==
    /\ th[t].view = "select_category"
    /\ th[t].pc \in {"sc_timestamp", "done"}
    /\ th[t].products # None
C21_InvalidationHolds ==
    \A t \in Threads :
        Obtained(t) => th[t].products.fetch > th[t].start_invalidated

\* --------------------------------------------------------------------- C22
\* C22: the cached list and its timestamp stay paired. In every state the
\* product list key and the timestamp key are both present or both absent, and
\* a select_category request that obtained a product list renders a
\* last_updated that is not None and was stored by the fetch the list comes
\* from.
KeysPaired ==
    (cache_get(PRODUCTS_CACHE_KEY) = None)
        <=> (cache_get(PRODUCTS_CACHE_TIMESTAMP_KEY) = None)
TimestampOfList(t) ==
    /\ th[t].response.last_updated # None
    /\ th[t].response.last_updated.fetch = th[t].products.fetch
C22_ListAndTimestampPaired ==
    /\ KeysPaired
    /\ \A t \in Threads :
           (Obtained(t) /\ th[t].pc = "done" /\ th[t].response.status = 200)
               => TimestampOfList(t)
====
